---- MODULE Spec2Model ----
(***************************************************************************)
(* A model of the enb build engine: the per-node target registry of        *)
(* lib/node (src/unnamed/part_000, lines 114-762) with the promise         *)
(* semantics of Vow it relies on, driven by technologies whose build       *)
(* routines call back into the node.                                       *)
(***************************************************************************)
EXTENDS Integers, Sequences, FiniteSets, TLC

\* ---------------------------------------------------------------- bounds
\* How many requireSources invocations one behaviour holds.
MaxCalls == 2
\* ------------------------------------------------------------ universes
\* Target names of the node; the node's directory is named "a".
Names == {"a", "b"}
\* A masked name, "?", is what callers may pass instead of the node's base name.
Masked == "?"
SourceNames == Names \cup {Masked}
Techs == {"T1", "T2"}
NoTech == "none"
Values == {"v1", "v2"}
BuildErrors == {"E1", "E2"}
NoVal == "none"
NoErr == <<"none", "none">>
BuildError(e) == <<"BuildError", e>>

\* What node.setTechs was given: the technologies in order, each with its
\* getTargets().
\*   OneTechTwoTargets: one technology owning both targets;
\*   Conflicting:       two technologies, both declaring "b";
\*   OneTechOneTarget:  one technology owning "a", none owning "b".
OneTechTwoTargets == << [id |-> "T1", targets |-> <<"a", "b">>] >>

Conflicting ==
    << [id |-> "T1", targets |-> <<"a", "b">>], [id |-> "T2", targets |-> <<"b">>] >>

OneTechOneTarget == << [id |-> "T1", targets |-> <<"a">>] >>

TechConfigs == {OneTechTwoTargets, Conflicting, OneTechOneTarget}

\* A technology that settles its targets on its own, requiring nothing.
FreeTech == [chained |-> FALSE, sources |-> <<>>]

VARIABLES
    techs,        \* node._techs: the technologies, each with its getTargets()
    registerDone, \* node._registerTargets has been replaced by the no-op
    targetNames,  \* node._targetNames: name -> target record
    techStarted,  \* tech.__started
    techRun,      \* where each technology's build() stands
    techSource,   \* the source whose request invoked build() (closure variable)
    buildCount,   \* history: how many times tech.build() was invoked
    calls,        \* the futures requireSources returned, oldest first
    logged,       \* history: the "rebuild" and "valid" logger events per target
    attempts,     \* history: requireSources invocations so far
    thrown,       \* the exception that escaped the latest node call, or NoErr
    techReq,      \* per technology: whether build() chains on requireSources, and of what
    techWait,     \* per technology: the call its build() is chained on, 0 if none
    targetNamesToBuild, \* node._targetNamesToBuild
    targetNamesToClean, \* node._targetNamesToClean
    keyOrder,     \* Object.keys(node._targetNames): the names in creation order
    buildState,   \* node.buildState
    builds,       \* what node.build computed and returned, oldest first
    cleans,       \* the futures tech.clean() returned, oldest first
    cleanCalls,   \* the futures cleanTargets returned, oldest first
    cacheData,    \* the node's cache in memory: entry key -> recorded modification time
    savedCache,   \* the cache as last persisted
    mtime,        \* the files on disk: modification time, 0 for an absent file
    writing,      \* the technologies whose vowFs.write is in flight
    pastRuns,     \* history: what each finished run of make did, oldest first
    platform,     \* the make platform: its references and what its teardown did
    nodes,        \* the platform's nodes by path: their references and teardown
    entry,        \* one call of the make entry point: options, position, outcome
    fileList      \* a FileList: items, slices and the per-suffix index

\* The variables of technologies that chain, those of node.build and
\* node.clean, and those of the cache across runs.
chainVars == <<techReq, techWait>>
buildVars == <<targetNamesToBuild, targetNamesToClean, keyOrder, buildState, builds,
               cleans, cleanCalls>>

\* What lies outside one requireSources call of a node whose technologies call
\* back on their own.
cacheVars == <<cacheData, savedCache, mtime, writing, pastRuns>>

makeVars == <<platform, nodes>>

entryVars == <<entry, fileList>>

others == <<chainVars, buildVars, cacheVars, makeVars, entryVars>>

vars == <<techs, registerDone, targetNames, techStarted, techRun, techSource,
          buildCount, calls, logged, attempts, thrown, others>>

\* ------------------------------------------------------------ Vow.defer
\* A target as _getTarget creates it; `present` is "the key is in _targetNames".
NoTarget ==
    [present |-> FALSE, tech |-> NoTech, started |-> FALSE, isValid |-> FALSE,
     st |-> "pending", val |-> NoVal, err |-> NoErr]

NewTarget == [NoTarget EXCEPT !.present = TRUE]

GetTarget(tn, name) ==
    IF tn[name].present THEN tn ELSE [tn EXCEPT ![name] = NewTarget]

\* Mutant: resolve overwrites a settled promise.
DeferResolveOverwrite(t, v) == [t EXCEPT !.st = "fulfilled", !.val = v, !.err = NoErr]

\* deferred.resolve(value): a settled promise ignores it.
DeferResolve(t, v) ==
    IF t.st = "pending" THEN [t EXCEPT !.st = "fulfilled", !.val = v] ELSE t

\* Mutant: rejecting a target also marks it started.
DeferRejectStarts(t, e) ==
    IF t.st = "pending" THEN [t EXCEPT !.st = "rejected", !.err = e, !.started = TRUE]
    ELSE [t EXCEPT !.started = TRUE]

\* deferred.reject(err): a settled promise ignores it.
DeferReject(t, e) ==
    IF t.st = "pending" THEN [t EXCEPT !.st = "rejected", !.err = e] ELSE t

\* -------------------------------------------------------------- Vow.all
\* One element of the array requireSources hands to Vow.all: the target's own
\* promise, or (nf) a fresh promise rejected with the target-not-found error.
TargetNotFound(name) == <<"TargetNotFound", name>>

ElSt(el, tn) == IF el.nf THEN "rejected" ELSE tn[el.name].st

ElErr(el, tn) == IF el.nf THEN TargetNotFound(el.name) ELSE tn[el.name].err

SetMin(S) == CHOOSE x \in S : \A y \in S : x <= y

\* Mutant: the aggregate waits for every element to settle before it rejects.
VowAllSettled(els, tn) ==
    LET rej == {i \in DOMAIN els : ElSt(els[i], tn) = "rejected"}
    IN  IF \E i \in DOMAIN els : ElSt(els[i], tn) = "pending"
        THEN [st |-> "pending", vals |-> <<>>, err |-> NoErr]
        ELSE IF rej # {}
        THEN [st |-> "rejected", vals |-> <<>>, err |-> ElErr(els[SetMin(rej)], tn)]
        ELSE [st |-> "fulfilled",
              vals |-> [i \in DOMAIN els |-> tn[els[i].name].val],
              err |-> NoErr]

\* Vow.all over `els`: rejected as soon as one element is rejected (callbacks run
\* in the order they were queued, so among elements already rejected the lowest
\* index wins), fulfilled with the values in order once all are fulfilled.
VowAll(els, tn) ==
    LET rej == {i \in DOMAIN els : ElSt(els[i], tn) = "rejected"}
    IN  IF rej # {}
        THEN [st |-> "rejected", vals |-> <<>>, err |-> ElErr(els[SetMin(rej)], tn)]
        ELSE IF \A i \in DOMAIN els : ElSt(els[i], tn) = "fulfilled"
        THEN [st |-> "fulfilled",
              vals |-> [i \in DOMAIN els |-> tn[els[i].name].val],
              err |-> NoErr]
        ELSE [st |-> "pending", vals |-> <<>>, err |-> NoErr]

\* The record kept of one requireSources call: the elements handed to Vow.all,
\* the technologies the call invoked (history) and the state of its future.
MakeCall(els, inv, tn) == [els |-> els, inv |-> inv] @@ VowAll(els, tn)

\* The callbacks of the pending aggregate promises, run after a target settled.
SettleCalls(cl, tn) ==
    [i \in DOMAIN cl |->
        IF cl[i].st = "pending" THEN MakeCall(cl[i].els, cl[i].inv, tn) ELSE cl[i]]

\* ------------------------------------------------- node: target methods
\* These take and return the part of the state they touch, a record S with
\*   tn (targetNames), lg (logged), cl (calls) and, in requireSources,
\*   ts (techStarted), tr (techRun), src (techSource), bc (buildCount),
\*   els (the array being mapped), inv (the technologies invoked so far),
\*   exc (an exception on its way out).

\* Mutant: the "rebuild" event is logged whether or not the target is valid.
resolveTargetAlwaysLogs(S, target, value) ==
    LET tn1 == GetTarget(S.tn, target)
        tn2 == [tn1 EXCEPT ![target] = DeferResolve(tn1[target], value)]
    IN  [S EXCEPT !.tn = tn2,
                  !.lg = [S.lg EXCEPT ![target] = @ \cup {"rebuild"}],
                  !.cl = SettleCalls(S.cl, tn2)]

\* node.resolveTarget(target, value)
resolveTarget(S, target, value) ==
    LET tn1 == GetTarget(S.tn, target)
        t   == tn1[target]
        lg1 == IF ~t.isValid
               THEN [S.lg EXCEPT ![target] = @ \cup {"rebuild"}]
               ELSE S.lg
        tn2 == [tn1 EXCEPT ![target] = DeferResolve(t, value)]
    IN  [S EXCEPT !.tn = tn2, !.lg = lg1, !.cl = SettleCalls(S.cl, tn2)]

\* Mutant: marking a target valid also resolves its future.
isValidTargetSettles(S, target) ==
    LET tn1 == GetTarget(S.tn, target)
        tn2 == [tn1 EXCEPT ![target] =
                    DeferResolve([tn1[target] EXCEPT !.isValid = TRUE], NoVal)]
    IN  [S EXCEPT !.tn = tn2,
                  !.lg = [S.lg EXCEPT ![target] = @ \cup {"valid"}],
                  !.cl = SettleCalls(S.cl, tn2)]

\* node.isValidTarget(target)
isValidTarget(S, target) ==
    LET tn1 == GetTarget(S.tn, target)
    IN  [S EXCEPT !.tn = [tn1 EXCEPT ![target].isValid = TRUE],
                  !.lg = [S.lg EXCEPT ![target] = @ \cup {"valid"}]]

\* Mutant: rejecting one target rejects every unsettled target of the node.
rejectTargetAll(S, target, err) ==
    LET tn1 == GetTarget(S.tn, target)
        tn2 == [n \in DOMAIN tn1 |->
                  IF n = target \/ tn1[n].present THEN DeferReject(tn1[n], err) ELSE tn1[n]]
    IN  [S EXCEPT !.tn = tn2, !.cl = SettleCalls(S.cl, tn2)]

\* node.rejectTarget(target, err)
rejectTarget(S, target, err) ==
    LET tn1 == GetTarget(S.tn, target)
        tn2 == [tn1 EXCEPT ![target] = DeferReject(tn1[target], err)]
    IN  [S EXCEPT !.tn = tn2, !.cl = SettleCalls(S.cl, tn2)]

\* node.unmaskTargetName(targetName): "?" stands for the node's base name.
TargetName == "a"

unmaskTargetName(targetName) ==
    IF targetName = Masked THEN TargetName ELSE targetName

\* ------------------------------------------------ node: registration
ConfigError(name) == <<"ConfigError", name>>

\* Mutant: a second technology silently takes the target over.
registerTargetOverwrite(tn, target, tech) ==
    [tn |-> [GetTarget(tn, target) EXCEPT ![target].tech = tech], exc |-> NoErr]

\* node._registerTarget(target, tech) on the registry tn: the registry after it
\* and the exception it threw.
registerTarget(tn, target, tech) ==
    LET tn1 == GetTarget(tn, target)
    IN  IF tn1[target].tech # NoTech
        THEN [tn |-> tn1, exc |-> ConfigError(target)]
        ELSE [tn |-> [tn1 EXCEPT ![target].tech = tech], exc |-> NoErr]

\* The (tech, target) pairs in the order the two forEach loops visit them.
RECURSIVE RegPairs(_, _)
RegPairs(tt, i) ==
    IF i > Len(tt) THEN <<>>
    ELSE [k \in 1..Len(tt[i].targets) |-> <<tt[i].id, tt[i].targets[k]>>]
         \o RegPairs(tt, i + 1)

RECURSIVE RegisterFrom(_, _, _)
RegisterFrom(tn, pairs, i) ==
    IF i > Len(pairs) THEN [tn |-> tn, exc |-> NoErr]
    ELSE LET r == registerTarget(tn, pairs[i][2], pairs[i][1])
         IN  IF r.exc # NoErr THEN r ELSE RegisterFrom(r.tn, pairs, i + 1)

\* Mutant: registration runs on every call.
registerTargetsAgain(tn, tt, done) ==
    LET r == RegisterFrom(tn, RegPairs(tt, 1), 1)
    IN  [tn |-> r.tn, exc |-> r.exc, done |-> r.exc = NoErr]

\* node._registerTargets(): a no-op once it has run to its end.
registerTargets(tn, tt, done) ==
    IF done THEN [tn |-> tn, exc |-> NoErr, done |-> TRUE]
    ELSE LET r == RegisterFrom(tn, RegPairs(tt, 1), 1)
         IN  [tn |-> r.tn, exc |-> r.exc, done |-> r.exc = NoErr]

\* ---------------------------------------------- node: requireSources
\* What a build routine does before it returns: throw its error, return a
\* future that is still unsettled, or return a plain value.
Behaviours == {"pending", "value", "throw"}

\* The error the build routine of a technology fails with, when it fails.
TechError(tech) == IF tech = "T1" THEN "E1" ELSE "E2"

\* Mutant: no try/catch around tech.build().
invokeBuildNoCatch(S, tech, source, b) ==
    LET S1 == [S EXCEPT !.bc[tech] = @ + 1, !.src[tech] = source,
                        !.inv = @ \cup {tech}]
    IN  CASE b = "throw" ->
               [S1 EXCEPT !.tr[tech] = "threw", !.exc = BuildError(TechError(tech))]
          [] b = "pending" -> [S1 EXCEPT !.tr[tech] = "pending"]
          [] OTHER -> [S1 EXCEPT !.tr[tech] = "done"]

\* The try block of requireSources: tech.build() is invoked; what it returns is
\* watched through Vow.when(...).fail, what it throws is caught, and either way
\* the failure goes to rejectTarget(source, err).
invokeBuild(S, tech, source, b) ==
    LET S1 == [S EXCEPT !.bc[tech] = @ + 1, !.src[tech] = source,
                        !.inv = @ \cup {tech}]
    IN  CASE b = "throw" ->
               rejectTarget([S1 EXCEPT !.tr[tech] = "threw"], source,
                            BuildError(TechError(tech)))
          [] b = "pending" -> [S1 EXCEPT !.tr[tech] = "pending"]
          [] OTHER -> [S1 EXCEPT !.tr[tech] = "done"]

\* Mutant: neither started flag is consulted.
startTargetEveryRequest(S, source, beh) ==
    LET tech == S.tn[source].tech
    IN  invokeBuild([S EXCEPT !.tn[source].started = TRUE, !.ts[tech] = TRUE],
                    tech, source, beh[tech])

\* Mutant: only the target's started flag is consulted, not the technology's.
startTargetNoTechFlag(S, source, beh) ==
    LET t == S.tn[source]
    IN  IF ~t.started
        THEN invokeBuild([S EXCEPT !.tn[source].started = TRUE, !.ts[t.tech] = TRUE],
                         t.tech, source, beh[t.tech])
        ELSE S

\* Mutant: a request for a target that is started and unsettled is taken for
\* a cycle, and the target is rejected.
startTargetCycleError(S, source, beh) ==
    LET t == S.tn[source]
    IN  IF ~t.started
        THEN LET S1 == [S EXCEPT !.tn[source].started = TRUE]
             IN  IF ~S1.ts[t.tech]
                 THEN invokeBuild([S1 EXCEPT !.ts[t.tech] = TRUE],
                                  t.tech, source, beh[t.tech])
                 ELSE S1
        ELSE IF t.st = "pending"
             THEN rejectTarget(S, source, <<"CycleError", source>>)
             ELSE S

\* The started guard of the target and, inside it, the one of the technology.
startTarget(S, source, beh) ==
    LET t == S.tn[source]
    IN  IF ~t.started
        THEN LET S1 == [S EXCEPT !.tn[source].started = TRUE]
             IN  IF ~S1.ts[t.tech]
                 THEN invokeBuild([S1 EXCEPT !.ts[t.tech] = TRUE],
                                  t.tech, source, beh[t.tech])
                 ELSE S1
        ELSE S

\* Mutant: a name without a technology is answered with the target's own,
\* unsettled, promise.
requireOneOwnPromise(S, src0, beh) ==
    LET source == unmaskTargetName(src0)
        S1     == [S EXCEPT !.tn = GetTarget(S.tn, source)]
    IN  IF S1.tn[source].tech = NoTech
        THEN [S1 EXCEPT !.els = Append(@, [nf |-> FALSE, name |-> source])]
        ELSE LET S2 == startTarget(S1, source, beh)
             IN  IF S2.exc # NoErr THEN S2
                 ELSE [S2 EXCEPT !.els = Append(@, [nf |-> FALSE, name |-> source])]

\* Mutant: a name without a technology has its own target rejected.
requireOneRejectsTarget(S, src0, beh) ==
    LET source == unmaskTargetName(src0)
        S1     == [S EXCEPT !.tn = GetTarget(S.tn, source)]
    IN  IF S1.tn[source].tech = NoTech
        THEN [rejectTarget(S1, source, TargetNotFound(source))
                 EXCEPT !.els = Append(@, [nf |-> FALSE, name |-> source])]
        ELSE LET S2 == startTarget(S1, source, beh)
             IN  IF S2.exc # NoErr THEN S2
                 ELSE [S2 EXCEPT !.els = Append(@, [nf |-> FALSE, name |-> source])]

\* The function requireSources maps over sources, for one source.
requireOne(S, src0, beh) ==
    LET source == unmaskTargetName(src0)
        S1     == [S EXCEPT !.tn = GetTarget(S.tn, source)]
    IN  IF S1.tn[source].tech = NoTech
        THEN [S1 EXCEPT !.els = Append(@, [nf |-> TRUE, name |-> source])]
        ELSE LET S2 == startTarget(S1, source, beh)
             IN  IF S2.exc # NoErr THEN S2
                 ELSE [S2 EXCEPT !.els = Append(@, [nf |-> FALSE, name |-> source])]

RECURSIVE mapSources(_, _, _, _)
mapSources(S, sources, i, beh) ==
    IF i > Len(sources) \/ S.exc # NoErr THEN S
    ELSE mapSources(requireOne(S, sources[i], beh), sources, i + 1, beh)

\* The state requireSources works on.
NodeState ==
    [tn |-> targetNames, lg |-> logged, cl |-> calls, ts |-> techStarted,
     tr |-> techRun, src |-> techSource, bc |-> buildCount,
     els |-> <<>>, inv |-> {}, exc |-> NoErr]

\* The lists requireSources is given: every non-empty list, repetitions and the
\* masked name included, as long as the node has names.
SourceLists == UNION {[1..n -> SourceNames] : n \in 1..Cardinality(Names)}

\* Whether requireSources(sources) will invoke the build routine of `tech`.
Invoked(sources, tech) ==
    /\ ~techStarted[tech]
    /\ \E i \in DOMAIN techs : techs[i].id = tech
    /\ \E k \in DOMAIN sources, i \in DOMAIN techs :
          /\ techs[i].id = tech
          /\ \E j \in DOMAIN techs[i].targets :
                techs[i].targets[j] = unmaskTargetName(sources[k])

\* node.requireSources(sources); beh is what each technology's build routine
\* does if this call invokes it.
requireSourcesStep(sources, beh) ==
    /\ attempts < MaxCalls
    /\ \A t \in Techs : Invoked(sources, t) \/ beh[t] = "pending"
    /\ attempts' = attempts + 1
    /\ UNCHANGED techs
    /\ LET R == registerTargets(targetNames, techs, registerDone)
       IN  IF R.exc # NoErr
           THEN /\ targetNames' = R.tn
                /\ registerDone' = R.done
                /\ thrown' = R.exc
                /\ UNCHANGED <<techStarted, techRun, techSource, buildCount,
                               calls, logged>>
           ELSE LET S == mapSources([NodeState EXCEPT !.tn = R.tn], sources, 1, beh)
                IN  /\ registerDone' = R.done
                    /\ targetNames' = S.tn
                    /\ logged' = S.lg
                    /\ techStarted' = S.ts
                    /\ techRun' = S.tr
                    /\ techSource' = S.src
                    /\ buildCount' = S.bc
                    /\ thrown' = S.exc
                    /\ calls' = IF S.exc # NoErr THEN S.cl
                                ELSE Append(S.cl, MakeCall(S.els, S.inv, S.tn))

RequireSources(sources, beh) == requireSourcesStep(sources, beh) /\ UNCHANGED others

\* ------------------------------------------- technologies calling back
\* A technology whose build routine has been invoked works on its own targets.
Running(target) ==
    /\ targetNames[target].present
    /\ targetNames[target].tech # NoTech
    /\ techStarted[targetNames[target].tech]

FrameNode(S) ==
    /\ targetNames' = S.tn
    /\ logged' = S.lg
    /\ calls' = S.cl
    /\ thrown' = NoErr
    /\ UNCHANGED <<techs, registerDone, techStarted, techSource, buildCount, attempts>>

Frame(S) == FrameNode(S) /\ UNCHANGED others

ResolveTarget(target, value) ==
    /\ Running(target)
    /\ Frame(resolveTarget(NodeState, target, value))
    /\ UNCHANGED techRun

IsValidTarget(target) ==
    /\ Running(target)
    /\ Frame(isValidTarget(NodeState, target))
    /\ UNCHANGED techRun

RejectTarget(target, e) ==
    /\ Running(target)
    /\ Frame(rejectTarget(NodeState, target, BuildError(e)))
    /\ UNCHANGED techRun

\* Mutant: the engine resolves the target from what build() returned.
BuildFulfilledResolves(tech) ==
    /\ techRun[tech] = "pending"
    /\ techRun' = [techRun EXCEPT ![tech] = "done"]
    /\ Frame(resolveTarget(NodeState, techSource[tech], "v1"))

\* The future build() returned is fulfilled: nothing is listening for that.
BuildFulfilled(tech) ==
    /\ techRun[tech] = "pending"
    /\ techRun' = [techRun EXCEPT ![tech] = "done"]
    /\ UNCHANGED <<techs, registerDone, targetNames, techStarted, techSource,
                   buildCount, calls, logged, attempts, thrown, others>>

\* The future build() returned fails: the fail callback of requireSources runs.
BuildFailed(tech) ==
    /\ techRun[tech] = "pending"
    /\ techRun' = [techRun EXCEPT ![tech] = "failed"]
    /\ Frame(rejectTarget(NodeState, techSource[tech], BuildError(TechError(tech))))

\* ------------------------------------------------------- specification
\* The entries the deps technology keeps in the node's cache, each with the
\* file whose modification time it records: the target file, the bemdecl file,
\* and the files of the levels (one time standing for the list).
KeyFile == [k \in {"deps-file", "bemdecl-file", "deps-file-list"} |->
              IF k = "deps-file" THEN "b" ELSE IF k = "bemdecl-file" THEN "c" ELSE "a"]

\* The paths the platform may be asked a node for.
NodePaths == {"pages/index", "common"}

TypeError == <<"TypeError", "none">>

\* new MakePlatform(): nothing initialised, nothing torn down.
NewPlatform ==
    [inited |-> FALSE, projectConfig |-> FALSE, cacheStorage |-> FALSE, dropped |-> 0,
     built |-> "never", sharedDestructs |-> 0, destructs |-> 0]

\* A path for which no node has been instantiated.
NoNode ==
    [made |-> FALSE, makePlatform |-> FALSE, nodeCache |-> FALSE, techs |-> FALSE,
     cacheDestructs |-> 0, destructs |-> 0, err |-> NoErr]

\* make has not been called.
NoEntry ==
    [phase |-> "idle", strict |-> TRUE, cache |-> TRUE, logger |-> FALSE,
     events |-> <<>>, st |-> "pending", err |-> NoErr]

\* The suffixes files have, and the files there are: { name, suffix }.
Suffixes == {"js", "css", "deps.js"}
FileUniverse == [name : {"f1", "f2"}, suffix : Suffixes]

\* What reading a property that was never set gives.
Undefined == "undefined"

\* new FileList()
NewFileList == [items |-> <<>>, slices |-> <<>>, bySuffix |-> [s \in Suffixes |-> Undefined]]

\* An empty cache, the required files on disk and the target file absent; a
\* new platform without nodes.
NoCache ==
    /\ cacheData = [k \in DOMAIN KeyFile |-> 0]
    /\ savedCache = cacheData
    /\ mtime = [f \in {"a", "b", "c"} |-> IF f = "b" THEN 0 ELSE 1]
    /\ writing = {}
    /\ pastRuns = <<>>
    /\ platform = NewPlatform
    /\ nodes = [p \in NodePaths |-> NoNode]
    /\ entry = NoEntry
    /\ fileList = NewFileList

\* A node on which build, clean and cleanTargets have not been called, with
\* the default lists of the constructor.
NoBuilds ==
    /\ targetNamesToBuild = <<>>
    /\ targetNamesToClean = <<>>
    /\ keyOrder = <<>>
    /\ buildState = "unset"
    /\ builds = <<>>
    /\ cleans = <<>>
    /\ cleanCalls = <<>>
    /\ NoCache

Init ==
    /\ techs \in TechConfigs
    /\ registerDone = FALSE
    /\ targetNames = [n \in Names |-> NoTarget]
    /\ techStarted = [t \in Techs |-> FALSE]
    /\ techRun = [t \in Techs |-> "idle"]
    /\ techSource = [t \in Techs |-> NoVal]
    /\ buildCount = [t \in Techs |-> 0]
    /\ calls = <<>>
    /\ logged = [n \in Names |-> {}]
    /\ attempts = 0
    /\ thrown = NoErr
    /\ techReq = [t \in Techs |-> FreeTech]
    /\ techWait = [t \in Techs |-> 0]
    /\ NoBuilds

Next ==
    \/ \E sources \in SourceLists, beh \in [Techs -> Behaviours] :
          RequireSources(sources, beh)
    \/ \E target \in Names, value \in Values : ResolveTarget(target, value)
    \/ \E target \in Names : IsValidTarget(target)
    \/ \E target \in Names, e \in BuildErrors : RejectTarget(target, e)
    \/ \E tech \in Techs : BuildFulfilled(tech)
    \/ \E tech \in Techs : BuildFailed(tech)

Spec == Init /\ [][Next]_vars

\* ============================================= technologies that chain
\* A node whose technologies may build as bemdecl-merge and deps do: build()
\* returns node.requireSources(sources).then(...), and the target is settled
\* from that callback only.
GraphNames == {"a", "b", "c"}
GraphTechs == {"T1", "T2", "T3"}

GraphTechList ==
    << [id |-> "T1", targets |-> <<"a">>], [id |-> "T2", targets |-> <<"b">>],
       [id |-> "T3", targets |-> <<"c">>] >>

Requires(sources) == [chained |-> TRUE, sources |-> sources]

\*   ChainReq:      "c" is built from "b", "b" from "a";
\*   SiblingReq:    "b" is built from "a", "c" from nothing;
\*   TwoSourcesReq: "b" is built from "a" and "c";
\*   CycleReq:      "b" is built from "c" and "c" from "b".
ChainReq == [t \in GraphTechs |->
    IF t = "T2" THEN Requires(<<"a">>) ELSE IF t = "T3" THEN Requires(<<"b">>) ELSE FreeTech]

SiblingReq == [t \in GraphTechs |-> IF t = "T2" THEN Requires(<<"a">>) ELSE FreeTech]

TwoSourcesReq == [t \in GraphTechs |-> IF t = "T2" THEN Requires(<<"a", "c">>) ELSE FreeTech]

CycleReq == [t \in GraphTechs |->
    IF t = "T2" THEN Requires(<<"c">>) ELSE IF t = "T3" THEN Requires(<<"b">>) ELSE FreeTech]

\*   SelfReq:       "b" is built from "b".
SelfReq == [t \in GraphTechs |-> IF t = "T2" THEN Requires(<<"b">>) ELSE FreeTech]

GraphReqs == {ChainReq, SiblingReq, TwoSourcesReq, CycleReq, SelfReq}

\* this._target of a technology of GraphTechList.
TargetOf(tech) ==
    LET i == CHOOSE i \in DOMAIN techs : techs[i].id = tech IN techs[i].targets[1]

\* The state requireSources works on, with what each build() is chained on.
GraphState ==
    [tn |-> targetNames, lg |-> logged, cl |-> calls, ts |-> techStarted,
     tr |-> techRun, src |-> techSource, bc |-> buildCount,
     els |-> <<>>, inv |-> {}, exc |-> NoErr, wait |-> techWait]

\* requireSources for one source, the build routine it invokes included: a
\* chaining build() calls requireSources(its sources) before it returns, and
\* that inner call returns its own future, which build() chains on.
RECURSIVE chainOne(_, _, _)
RECURSIVE chainSources(_, _, _, _)
chainOne(S, src0, beh) ==
    LET source == unmaskTargetName(src0)
        S1     == requireOne(S, src0, beh)
        tech   == S1.tn[source].tech
    IN  IF tech # NoTech /\ S1.bc[tech] > S.bc[tech] /\ techReq[tech].chained
        THEN LET N == chainSources([S1 EXCEPT !.els = <<>>, !.inv = {}],
                                   techReq[tech].sources, 1, beh)
             IN  [N EXCEPT !.els = S1.els, !.inv = S1.inv,
                           !.cl = Append(N.cl, MakeCall(N.els, N.inv, N.tn)),
                           !.wait[tech] = Len(N.cl) + 1]
        ELSE S1

chainSources(S, sources, i, beh) ==
    IF i > Len(sources) \/ S.exc # NoErr THEN S
    ELSE chainSources(chainOne(S, sources[i], beh), sources, i + 1, beh)

\* The lists the node is asked for: one name, or several different ones.
GraphSourceLists ==
    {l \in UNION {[1..n -> GraphNames] : n \in 1..Cardinality(Names)} :
        \A i, j \in DOMAIN l : l[i] = l[j] => i = j}

\* node.requireSources(sources) from outside any build routine.
requireChainedStep(sources, beh) ==
    /\ attempts < MaxCalls
    /\ \A t \in GraphTechs :
          IF techReq[t].chained \/ techStarted[t] THEN beh[t] = "pending"
          ELSE beh[t] \in {"pending", "throw"}
    /\ attempts' = attempts + 1
    /\ UNCHANGED <<techs, techReq>>
    /\ LET R == registerTargets(targetNames, techs, registerDone)
           S == chainSources([GraphState EXCEPT !.tn = R.tn], sources, 1, beh)
       IN  /\ registerDone' = R.done
           /\ targetNames' = S.tn
           /\ logged' = S.lg
           /\ techStarted' = S.ts
           /\ techRun' = S.tr
           /\ techSource' = S.src
           /\ buildCount' = S.bc
           /\ techWait' = S.wait
           /\ thrown' = S.exc
           /\ calls' = Append(S.cl, MakeCall(S.els, S.inv, S.tn))
    /\ {t \in GraphTechs : beh[t] # "pending" /\ buildCount'[t] = buildCount[t]} = {}

RequireChained(sources, beh) ==
    requireChainedStep(sources, beh) /\ UNCHANGED <<buildVars, cacheVars, makeVars, entryVars>>

\* The future a chaining build() waits for is fulfilled: its callback runs. It
\* finds the target up to date ("valid"), or writes it ("rebuilt"), or fails in
\* reading or writing ("error"), which fails the future build() returned.
ChainOutcomes == {"valid", "rebuilt", "error"}

\* What a technology that requires nothing resolves its target with, and what
\* a chaining one does.
SourceValue == "v1"
MergedValue == "v2"

ChainThen(tech, out, value) ==
    /\ techReq[tech].chained
    /\ techRun[tech] = "pending"
    /\ techWait[tech] # 0
    /\ calls[techWait[tech]].st = "fulfilled"
    /\ techRun' = [techRun EXCEPT ![tech] = IF out = "error" THEN "failed" ELSE "done"]
    /\ Frame(CASE out = "valid" ->
                    resolveTarget(isValidTarget(NodeState, TargetOf(tech)),
                                  TargetOf(tech), value)
               [] out = "rebuilt" -> resolveTarget(NodeState, TargetOf(tech), value)
               [] OTHER ->
                    rejectTarget(NodeState, techSource[tech], BuildError(TechError(tech))))

\* Mutant: the chaining build() fails with an error of its own.
ChainFailOwnError(tech) ==
    /\ techReq[tech].chained
    /\ techRun[tech] = "pending"
    /\ techWait[tech] # 0
    /\ calls[techWait[tech]].st = "rejected"
    /\ techRun' = [techRun EXCEPT ![tech] = "failed"]
    /\ Frame(rejectTarget(NodeState, techSource[tech], BuildError(TechError(tech))))

\* The future a chaining build() waits for is rejected: the future build()
\* returned fails with that error, and the fail callback of requireSources runs.
ChainFail(tech) ==
    /\ techReq[tech].chained
    /\ techRun[tech] = "pending"
    /\ techWait[tech] # 0
    /\ calls[techWait[tech]].st = "rejected"
    /\ techRun' = [techRun EXCEPT ![tech] = "failed"]
    /\ Frame(rejectTarget(NodeState, techSource[tech], calls[techWait[tech]].err))

\* A technology that requires nothing writes its target and resolves it, which
\* ends its build routine, or fails as in Spec.
FreeResolve(tech, value) ==
    /\ ~techReq[tech].chained
    /\ techRun[tech] = "pending"
    /\ techRun' = [techRun EXCEPT ![tech] = "done"]
    /\ Frame(resolveTarget(NodeState, TargetOf(tech), value))

FreeFailed(tech) == ~techReq[tech].chained /\ BuildFailed(tech)

GraphInit ==
    /\ techs = GraphTechList
    /\ techReq \in GraphReqs
    /\ registerDone = FALSE
    /\ targetNames = [n \in GraphNames |-> NoTarget]
    /\ techStarted = [t \in GraphTechs |-> FALSE]
    /\ techRun = [t \in GraphTechs |-> "idle"]
    /\ techSource = [t \in GraphTechs |-> NoVal]
    /\ buildCount = [t \in GraphTechs |-> 0]
    /\ techWait = [t \in GraphTechs |-> 0]
    /\ NoBuilds
    /\ calls = <<>>
    /\ logged = [n \in GraphNames |-> {}]
    /\ attempts = 0
    /\ thrown = NoErr

GraphNext ==
    \/ \E sources \in GraphSourceLists, beh \in [GraphTechs -> Behaviours] :
          RequireChained(sources, beh)
    \/ \E tech \in GraphTechs, out \in ChainOutcomes : ChainThen(tech, out, MergedValue)
    \/ \E tech \in GraphTechs : ChainFail(tech)
    \/ \E tech \in GraphTechs : FreeResolve(tech, SourceValue)
    \/ \E tech \in GraphTechs : FreeFailed(tech)

\* The event loop runs every callback of a settled future.
GraphFairness ==
    \A tech \in GraphTechs :
        /\ WF_vars(ChainFail(tech))
        /\ WF_vars(\E out \in ChainOutcomes : ChainThen(tech, out, MergedValue))

SpecGraph == GraphInit /\ [][GraphNext]_vars /\ GraphFairness

\* ================================================= node.build, node.clean
\* The node "pages/index": node._path, as path.join sees it.
NodePath == <<"pages", "index">>

\* path.join(node._path, target) for a target that is a plain file name.
PathJoin(dir, target) == Append(dir, target)

Wildcard == "*"

\* A list argument that may be left out.
NoList == [given |-> FALSE, list |-> <<>>]
Given(list) == [given |-> TRUE, list |-> list]

\* Mutant: uniq keeps the last occurrence of each element.
RECURSIVE uniqLast(_)
uniqLast(list) ==
    IF list = <<>> THEN <<>>
    ELSE IF \E j \in 2..Len(list) : list[j] = list[1]
         THEN uniqLast(Tail(list))
         ELSE <<list[1]>> \o uniqLast(Tail(list))

\* uniq(list): the first occurrence of each element, in order.
RECURSIVE uniq(_)
uniq(list) ==
    IF list = <<>> THEN <<>>
    ELSE LET init == uniq(SubSeq(list, 1, Len(list) - 1))
             last == list[Len(list)]
         IN  IF \E j \in DOMAIN init : init[j] = last THEN init ELSE Append(init, last)

\* node._expandTargets(targets, defaultTargetList); keys is
\* Object.keys(this._targetNames).
RECURSIVE flattenMap(_, _)
flattenMap(targets, allTargets) ==
    IF targets = <<>> THEN <<>>
    ELSE (IF targets[1] = Wildcard THEN allTargets ELSE <<targets[1]>>)
         \o flattenMap(Tail(targets), allTargets)

expandTargets(keys, targets, defaultTargetList) ==
    flattenMap(targets, IF Len(defaultTargetList) = 0 THEN keys ELSE defaultTargetList)

\* Mutant: without a list, the caller's own default list is the one resolved.
resolveTargetsOwnDefault(keys, targets, defaultTargetList, toBuild) ==
    uniq(IF targets.given THEN expandTargets(keys, targets.list, defaultTargetList)
         ELSE defaultTargetList)

\* node._resolveTargets(targets, defaultTargetList)
resolveTargets(keys, targets, defaultTargetList, toBuild) ==
    uniq(IF targets.given THEN expandTargets(keys, targets.list, defaultTargetList)
         ELSE toBuild)

\* Object.keys(_targetNames) after a call that created keys: the names of
\* `created`, in that order, that are new in tn.
RECURSIVE keysAfter(_, _, _)
keysAfter(keys, tn, created) ==
    IF created = <<>> THEN keys
    ELSE LET n == created[1]
         IN  keysAfter(IF tn[n].present /\ ~\E j \in DOMAIN keys : keys[j] = n
                       THEN Append(keys, n) ELSE keys,
                       tn, Tail(created))

\* The names _registerTargets visits, in order.
RegNames(tt) == [i \in DOMAIN RegPairs(tt, 1) |-> RegPairs(tt, 1)[i][2]]

\* The target lists build and clean are given: none, or up to two of the
\* node's names and the wildcard.
TargetLists ==
    {NoList} \cup {Given(l) : l \in UNION {[1..n -> Names \cup {Wildcard}] :
                                             n \in 0..Cardinality(Names)}}

\* The lists setTargetsToBuild and setTargetsToClean were given: none, so that
\* both are empty, or different ones, one of them naming a target twice.
DefaultLists ==
    {[toBuild |-> <<>>, toClean |-> <<>>], [toBuild |-> <<"b", "a">>, toClean |-> <<"a">>],
     [toBuild |-> <<"a", "b", "a">>, toClean |-> <<"b">>]}

\* node.build(targets): the list is computed first, then handed to
\* requireSources; builtTargets is computed from it when that future is
\* fulfilled. A build whose requireSources threw returned no future.
Build(targets, beh) ==
    LET targetsToBuild ==
            resolveTargets(keyOrder, targets, targetNamesToBuild, targetNamesToBuild)
    IN  /\ requireSourcesStep(targetsToBuild, beh)
        /\ keyOrder' = keysAfter(keyOrder, targetNames',
                                 RegNames(techs) \o [i \in DOMAIN targetsToBuild |->
                                                       unmaskTargetName(targetsToBuild[i])])
        /\ builds' = Append(builds, [asked |-> targets,
                                     targetsToBuild |-> targetsToBuild,
                                     call |-> IF thrown' = NoErr THEN Len(calls') ELSE 0])
        /\ UNCHANGED <<chainVars, cacheVars, makeVars, entryVars, targetNamesToBuild, targetNamesToClean,
                       buildState, cleans, cleanCalls>>

\* The future node.build returned, read off the call it is chained on.
BuildFuture(b) ==
    IF calls[b.call].st = "fulfilled"
    THEN [st |-> "fulfilled",
          builtTargets |-> [i \in DOMAIN b.targetsToBuild |->
                              PathJoin(NodePath, b.targetsToBuild[i])],
          err |-> NoErr]
    ELSE [st |-> calls[b.call].st, builtTargets |-> <<>>, err |-> calls[b.call].err]

\* ------------------------------------------------ node: cleanTargets
\* Error("There is no tech for target ...")
NoTechError(name) == <<"NoTechForTarget", name>>

\* The error the clean routine of a technology fails with, when it fails.
CleanError(tech) == <<"CleanError", tech>>

\* Vow.all over the futures, numbered ps, that tech.clean() returned.
cleanAll(ps, cs) ==
    LET rej == {i \in DOMAIN ps : cs[ps[i]].st = "rejected"}
    IN  IF rej # {}
        THEN [st |-> "rejected", err |-> CleanError(cs[ps[SetMin(rej)]].tech)]
        ELSE IF \A i \in DOMAIN ps : cs[ps[i]].st = "fulfilled"
        THEN [st |-> "fulfilled", err |-> NoErr]
        ELSE [st |-> "pending", err |-> NoErr]

settleCleanCalls(cc, cs) ==
    [i \in DOMAIN cc |->
        IF cc[i].st = "pending"
        THEN [asked |-> cc[i].asked, names |-> cc[i].names, ps |-> cc[i].ps]
             @@ cleanAll(cc[i].ps, cs)
        ELSE cc[i]]

\* Mutant: a name without a technology is passed over.
cleanOneSkips(C, target, cbeh) ==
    LET tn1 == GetTarget(C.tn, target)
        C1  == [C EXCEPT !.tn = tn1, !.ko = keysAfter(C.ko, tn1, <<target>>)]
        tech == tn1[target].tech
    IN  IF tech = NoTech
        THEN C1
        ELSE IF cbeh[tech] = "throw"
        THEN [C1 EXCEPT !.cs = Append(@, [tech |-> tech, st |-> "threw"]),
                        !.exc = CleanError(tech)]
        ELSE [C1 EXCEPT !.cs = Append(@, [tech |-> tech,
                                          st |-> IF cbeh[tech] = "value"
                                                 THEN "fulfilled" ELSE "pending"]),
                        !.ps = Append(@, Len(C1.cs) + 1)]

\* The function cleanTargets maps over targets, for one target: cbeh is what
\* each technology's clean routine does when invoked.
cleanOne(C, target, cbeh) ==
    LET tn1 == GetTarget(C.tn, target)
        C1  == [C EXCEPT !.tn = tn1, !.ko = keysAfter(C.ko, tn1, <<target>>)]
        tech == tn1[target].tech
    IN  IF tech = NoTech
        THEN [C1 EXCEPT !.exc = NoTechError(target)]
        ELSE IF cbeh[tech] = "throw"
        THEN [C1 EXCEPT !.cs = Append(@, [tech |-> tech, st |-> "threw"]),
                        !.exc = CleanError(tech)]
        ELSE [C1 EXCEPT !.cs = Append(@, [tech |-> tech,
                                          st |-> IF cbeh[tech] = "value"
                                                 THEN "fulfilled" ELSE "pending"]),
                        !.ps = Append(@, Len(C1.cs) + 1)]

RECURSIVE mapClean(_, _, _, _)
mapClean(C, targets, i, cbeh) ==
    IF i > Len(targets) \/ C.exc # NoErr THEN C
    ELSE mapClean(cleanOne(C, targets[i], cbeh), targets, i + 1, cbeh)

\* How many times the clean routine of `tech` has been invoked.
CleanCount(cs, tech) == Cardinality({i \in DOMAIN cs : cs[i].tech = tech})

\* node.cleanTargets(targets) on a node whose _targetNames is tn, with keys ko;
\* asked is the list the caller of node.clean gave, kept with the call's record.
cleanTargetsStep(tn, ko, asked, targets, cbeh) ==
    LET C == mapClean([tn |-> tn, ko |-> ko, cs |-> cleans, ps |-> <<>>, exc |-> NoErr],
                      targets, 1, cbeh)
    IN  /\ targetNames' = C.tn
        /\ keyOrder' = C.ko
        /\ cleans' = C.cs
        /\ thrown' = C.exc
        /\ cleanCalls' = IF C.exc # NoErr THEN cleanCalls
                         ELSE Append(cleanCalls,
                                     [asked |-> asked, names |-> targets, ps |-> C.ps]
                                     @@ cleanAll(C.ps, C.cs))
        /\ {t \in Techs : cbeh[t] # "pending" /\ CleanCount(C.cs, t) = CleanCount(cleans, t)} = {}

\* Whether the technology declares the name among its targets.
Owns(tech, name) ==
    \E i \in DOMAIN techs :
        techs[i].id = tech /\ \E j \in DOMAIN techs[i].targets : techs[i].targets[j] = name

\* Only a technology that owns a listed name can have its clean routine invoked.
MayClean(targets, cbeh) ==
    {t \in Techs : cbeh[t] # "pending" /\ ~\E k \in DOMAIN targets : Owns(t, targets[k])} = {}

\* node.cleanTargets(targets), called on the node directly.
CleanTargets(targets, cbeh) ==
    /\ attempts < MaxCalls
    /\ MayClean(targets, cbeh)
    /\ attempts' = attempts + 1
    /\ cleanTargetsStep(targetNames, keyOrder, Given(targets), targets, cbeh)
    /\ UNCHANGED <<techs, registerDone, techStarted, techRun, techSource, buildCount,
                   calls, logged, chainVars, cacheVars, makeVars, entryVars, targetNamesToBuild,
                   targetNamesToClean, buildState, builds>>

\* node.clean(targets): the build state is replaced, the targets are
\* registered, and the resolved list is handed to cleanTargets.
Clean(targets, cbeh) ==
    /\ attempts < MaxCalls
    /\ MayClean(IF targets.given THEN <<"a", "b">> ELSE targetNamesToBuild, cbeh)
    /\ attempts' = attempts + 1
    /\ buildState' = "empty"
    /\ LET R  == registerTargets(targetNames, techs, registerDone)
           ko == keysAfter(keyOrder, R.tn, RegNames(techs))
       IN  /\ registerDone' = R.done
           /\ IF R.exc # NoErr
              THEN /\ targetNames' = R.tn
                   /\ keyOrder' = ko
                   /\ thrown' = R.exc
                   /\ \A t \in Techs : cbeh[t] = "pending"
                   /\ UNCHANGED <<cleans, cleanCalls>>
              ELSE cleanTargetsStep(R.tn, ko, targets,
                                    resolveTargets(ko, targets, targetNamesToClean,
                                                   targetNamesToBuild),
                                    cbeh)
    /\ UNCHANGED <<techs, techStarted, techRun, techSource, buildCount, calls, logged,
                   chainVars, cacheVars, makeVars, entryVars, targetNamesToBuild, targetNamesToClean, builds>>

\* The future a clean routine returned settles.
CleanSettled(i, ok) ==
    /\ i \in DOMAIN cleans
    /\ cleans[i].st = "pending"
    /\ cleans' = [cleans EXCEPT ![i].st = IF ok THEN "fulfilled" ELSE "rejected"]
    /\ cleanCalls' = settleCleanCalls(cleanCalls, cleans')
    /\ thrown' = NoErr
    /\ UNCHANGED <<techs, registerDone, targetNames, techStarted, techRun, techSource,
                   buildCount, calls, logged, attempts, chainVars, cacheVars, makeVars, entryVars,
                   targetNamesToBuild, targetNamesToClean, keyOrder, buildState, builds>>

\* The lists cleanTargets is given: names of the node, repetitions included.
CleanLists == UNION {[1..n -> Names] : n \in 0..Cardinality(Names)}

BuildInit ==
    /\ techs \in TechConfigs
    /\ registerDone = FALSE
    /\ targetNames = [n \in Names |-> NoTarget]
    /\ techStarted = [t \in Techs |-> FALSE]
    /\ techRun = [t \in Techs |-> "idle"]
    /\ techSource = [t \in Techs |-> NoVal]
    /\ buildCount = [t \in Techs |-> 0]
    /\ calls = <<>>
    /\ logged = [n \in Names |-> {}]
    /\ attempts = 0
    /\ thrown = NoErr
    /\ techReq = [t \in Techs |-> FreeTech]
    /\ techWait = [t \in Techs |-> 0]
    /\ \E d \in DefaultLists : targetNamesToBuild = d.toBuild /\ targetNamesToClean = d.toClean
    /\ keyOrder = <<>>
    /\ buildState = "unset"
    /\ builds = <<>>
    /\ cleans = <<>>
    /\ cleanCalls = <<>>
    /\ NoCache

\* A technology resolves a target of its own that is not settled yet.
ResolvePending(target, value) ==
    /\ targetNames[target].st = "pending"
    /\ ResolveTarget(target, value)

\* The node built and cleaned, with its technologies settling their targets.
BuildNext ==
    \/ \E targets \in TargetLists, beh \in [Techs -> Behaviours] : Build(targets, beh)
    \/ \E targets \in TargetLists, cbeh \in [Techs -> Behaviours] : Clean(targets, cbeh)
    \/ \E target \in Names : ResolvePending(target, SourceValue)
    \/ \E tech \in Techs : BuildFailed(tech)

SpecBuild == BuildInit /\ [][BuildNext]_vars

\* The node cleaned, with the futures of the clean routines settling.
CleanNext ==
    \/ \E targets \in TargetLists, cbeh \in [Techs -> Behaviours] : Clean(targets, cbeh)
    \/ \E targets \in CleanLists, cbeh \in [Techs -> Behaviours] : CleanTargets(targets, cbeh)
    \/ \E i \in 1..(MaxCalls * Cardinality(Names)), ok \in BOOLEAN : CleanSettled(i, ok)

SpecClean == BuildInit /\ [][CleanNext]_vars

\* ================================================================ claims
Settled(t) == targetNames[t].st # "pending"

RejectedWith(tn, t, e) == tn[t].st = "rejected" /\ tn[t].err = e

\* The element requireSources returns for a name that has a technology.
El(t) == [nf |-> FALSE, name |-> t]

\* The positions of a call whose name has no technology bound to it.
Unowned(c) == {k \in DOMAIN c.els : targetNames[c.els[k].name].tech = NoTech}

\* Two different technologies of the node declare the same target name.
Conflict(tt) ==
    \E i, j \in DOMAIN tt :
        /\ i # j
        /\ \E k \in DOMAIN tt[i].targets, l \in DOMAIN tt[j].targets :
              tt[i].targets[k] = tt[j].targets[l]

\* C1: for a target that has a technology and has been requested, the
\* technology's build routine has been invoked exactly once however many calls
\* requested it, every call holds the target's own future, and all calls for
\* that one target show the same outcome, which is the target's.
C1_BuildOnceSameOutcome ==
    \A t \in Names :
        ( /\ targetNames[t].tech # NoTech
          /\ \E i \in DOMAIN calls : \E k \in DOMAIN calls[i].els :
                calls[i].els[k].name = t )
        => /\ buildCount[targetNames[t].tech] = 1
           /\ \A i \in DOMAIN calls : \A k \in DOMAIN calls[i].els :
                 calls[i].els[k].name = t => calls[i].els[k] = El(t)
           /\ \A i, j \in DOMAIN calls :
                 (calls[i].els = <<El(t)>> /\ calls[j].els = <<El(t)>>)
                 => /\ calls[i].st = calls[j].st
                    /\ calls[i].vals = calls[j].vals
                    /\ calls[i].err = calls[j].err
                    /\ calls[i].st = targetNames[t].st
                    /\ calls[i].err = targetNames[t].err
                    /\ (calls[i].st = "fulfilled"
                           => calls[i].vals = <<targetNames[t].val>>)

\* Two calls for the one target "a", both settled, one build.
C1_Witness ==
    /\ Len(calls) >= 2
    /\ calls[1].els = <<El("a")>>
    /\ calls[2].els = <<El("a")>>
    /\ calls[1].st = "fulfilled"
    /\ buildCount["T1"] = 1

\* C2: no technology's build routine is invoked more than once, whatever
\* targets of it are requested, in whatever order and however often.
C2_BuildAtMostOnce == \A tech \in Techs : buildCount[tech] <= 1

\* Both targets of the one technology have been requested, in two calls.
C2_Witness ==
    /\ techs = OneTechTwoTargets
    /\ Len(calls) >= 2
    /\ targetNames["a"].started
    /\ targetNames["b"].started
    /\ buildCount["T1"] = 1

\* C3 as stated: once a node with two technologies declaring one target name
\* is constructed, the configuration error has been raised.
C3_Original == Conflict(techs) => thrown[1] = "ConfigError"

\* C3, amended: on such a node nothing is raised until requireSources is called;
\* every requireSources call then throws the configuration error, returns no
\* future, and no build routine is ever invoked.
C3_ErrorOnFirstRequire ==
    Conflict(techs)
    => /\ \A tech \in Techs : buildCount[tech] = 0 /\ techRun[tech] = "idle"
       /\ calls = <<>>
       /\ (attempts = 0 => thrown = NoErr)
       /\ (attempts > 0 => thrown[1] = "ConfigError")

C3_Witness ==
    /\ Conflict(techs)
    /\ attempts > 0
    /\ thrown[1] = "ConfigError"
    /\ targetNames["b"].tech = "T1"

\* C4 as stated: a call given a name no technology owns returns a future
\* rejected with a target-not-found error, and that call invokes no build.
C4_Original ==
    \A i \in DOMAIN calls :
        Unowned(calls[i]) # {}
        => /\ calls[i].st = "rejected"
           /\ calls[i].err[1] = "TargetNotFound"
           /\ calls[i].inv = {}

\* C4, amended: such a call returns a rejected future; its error is the
\* target-not-found error of the first such name unless a name listed before
\* it has a target that is already rejected, whose error it then is; the name
\* itself is answered without starting anything, a call naming only such names
\* invokes no build routine, and the other names of the call still start theirs.
C4_NotFoundRejects ==
    \A i \in DOMAIN calls :
        LET c == calls[i]
            U == Unowned(c)
        IN  U # {}
            => /\ c.st = "rejected"
               /\ \A k \in U :
                     c.els[k].nf /\ ~targetNames[c.els[k].name].started
               /\ \/ c.err = TargetNotFound(c.els[SetMin(U)].name)
                  \/ \E k \in DOMAIN c.els \ U :
                        /\ k < SetMin(U)
                        /\ RejectedWith(targetNames, c.els[k].name, c.err)
               /\ (U = DOMAIN c.els => c.inv = {})
               /\ \A tech \in c.inv :
                     \E k \in DOMAIN c.els \ U :
                        targetNames[c.els[k].name].tech = tech

\* A call for "a", owned, and "b", not owned: it invoked the technology of "a",
\* whose failure, not the target-not-found error, is what the caller sees.
C4_Witness ==
    /\ techs = OneTechOneTarget
    /\ Len(calls) >= 1
    /\ calls[1].els = <<El("a"), [nf |-> TRUE, name |-> "b"]>>
    /\ calls[1].inv = {"T1"}
    /\ calls[1].st = "rejected"
    /\ calls[1].err = BuildError("E1")

\* C5 as stated: after a request for a name no technology owns, that target's
\* own future is rejected with the target-not-found error.
C5_Original ==
    \A i \in DOMAIN calls : \A k \in Unowned(calls[i]) :
        RejectedWith(targetNames, calls[i].els[k].name,
                     TargetNotFound(calls[i].els[k].name))

\* C5, amended: the error is surfaced as a fresh rejected promise inside the
\* returned aggregate, which is rejected; the target's own record is created
\* but its future stays unsettled and unstarted.
C5_FreshRejection ==
    \A i \in DOMAIN calls : \A k \in Unowned(calls[i]) :
        LET n == calls[i].els[k].name
        IN  /\ calls[i].els[k].nf
            /\ calls[i].st = "rejected"
            /\ targetNames[n].present
            /\ targetNames[n].st = "pending"
            /\ ~targetNames[n].started

C5_Witness ==
    /\ Len(calls) >= 1
    /\ calls[1].els = <<[nf |-> TRUE, name |-> "b"]>>
    /\ calls[1].err = TargetNotFound("b")
    /\ targetNames["b"].present
    /\ targetNames["b"].st = "pending"

\* C6 as stated, for calls whose names all have a technology: the returned
\* future is not settled while any requested target is unsettled.
C6_Original ==
    \A i \in DOMAIN calls :
        (Unowned(calls[i]) = {} /\ calls[i].st # "pending")
        => \A k \in DOMAIN calls[i].els :
              ElSt(calls[i].els[k], targetNames) # "pending"

\* C6, amended: the returned future is fulfilled exactly when every requested
\* target is fulfilled, with their values in the order of the names; it is
\* rejected exactly when some requested target is rejected (or has no
\* technology), with the error of one of them, whether or not the others have
\* settled.
C6_AllFulfilledOrFirstRejected ==
    \A i \in DOMAIN calls :
        LET c == calls[i]
        IN  /\ c.st = "fulfilled"
                <=> \A k \in DOMAIN c.els : ElSt(c.els[k], targetNames) = "fulfilled"
            /\ c.st = "fulfilled"
                => c.vals = [k \in DOMAIN c.els |-> targetNames[c.els[k].name].val]
            /\ c.st = "rejected"
                <=> \E k \in DOMAIN c.els : ElSt(c.els[k], targetNames) = "rejected"
            /\ c.st = "rejected"
                => \E k \in DOMAIN c.els :
                      /\ ElSt(c.els[k], targetNames) = "rejected"
                      /\ c.err = ElErr(c.els[k], targetNames)

\* A call for "a" and "b" fulfilled with their two different values, in order.
C6_Witness ==
    \E i \in DOMAIN calls :
        /\ calls[i].els = <<El("b"), El("a")>>
        /\ calls[i].st = "fulfilled"
        /\ calls[i].vals = <<"v1", "v2">>
        /\ targetNames["b"].val = "v1"

\* C7: a target's future settles at most once: in no step does a settled
\* target change its state, value or error, whatever resolveTarget or
\* rejectTarget call the step makes, and a settled future returned by
\* requireSources keeps the outcome it showed its waiter.
C7_SettlesOnce ==
    [][ /\ \A t \in Names :
              Settled(t)
              => /\ targetNames'[t].st = targetNames[t].st
                 /\ targetNames'[t].val = targetNames[t].val
                 /\ targetNames'[t].err = targetNames[t].err
        /\ \A i \in DOMAIN calls :
              calls[i].st # "pending" => calls'[i] = calls[i] ]_vars

\* resolveTarget ran on "a" (its "rebuild" event is logged) after "a" had been
\* rejected: "a" is still rejected, and so is the call that waited for it.
C7_Witness ==
    /\ targetNames["a"].st = "rejected"
    /\ "rebuild" \in logged["a"]
    /\ Len(calls) >= 1
    /\ calls[1].els = <<El("a")>>
    /\ calls[1].st = "rejected"
    /\ calls[1].err = targetNames["a"].err

\* C8 as stated: marking a target valid settles its future.
C8_Original == \A t \in Names : targetNames[t].isValid => Settled(t)

\* C8, amended: isValidTarget marks the target valid and logs the "valid"
\* event but leaves the target's future, and every future waiting for it, as
\* it was; only resolveTarget or rejectTarget release the waiters.
C8_ValidDoesNotSettle ==
    [][ \A t \in Names :
            (~targetNames[t].isValid /\ targetNames'[t].isValid)
            => /\ targetNames'[t].st = targetNames[t].st
               /\ targetNames'[t].val = targetNames[t].val
               /\ targetNames'[t].err = targetNames[t].err
               /\ calls' = calls
               /\ "valid" \in logged'[t] ]_vars

\* "a" is marked valid, unsettled, and a call is still waiting for it.
C8_Witness ==
    /\ targetNames["a"].isValid
    /\ targetNames["a"].st = "pending"
    /\ Len(calls) >= 1
    /\ calls[1].els = <<El("a")>>
    /\ calls[1].st = "pending"

\* C9 as stated: no target gets both a "valid" and a "rebuild" event.
C9_Original == \A t \in Names : ~({"valid", "rebuild"} \subseteq logged[t])

\* C9, amended: resolveTarget emits "rebuild" only for a target not marked
\* valid, so once a target is marked valid no step adds a "rebuild" event for
\* it; a resolveTarget that came before isValidTarget leaves both events.
C9_NoRebuildAfterValid ==
    [][ \A t \in Names :
            targetNames[t].isValid
            => ("rebuild" \in logged'[t] => "rebuild" \in logged[t]) ]_vars

\* "a" was marked valid and then resolved: fulfilled, no "rebuild" event.
C9_Witness ==
    /\ targetNames["a"].isValid
    /\ targetNames["a"].st = "fulfilled"
    /\ logged["a"] = {"valid"}

\* C10 as stated: once a technology's build routine has thrown or its future
\* has failed, the target whose request invoked it is rejected with that error.
C10_Original ==
    \A tech \in Techs :
        techRun[tech] \in {"threw", "failed"}
        => RejectedWith(targetNames, techSource[tech], BuildError(TechError(tech)))

\* C10, amended: no build failure escapes requireSources as an exception; a
\* routine that throws leaves requireSources returning its future, and the
\* failure is passed to rejectTarget for the target whose request invoked the
\* routine: if that target is still unsettled it becomes rejected with that
\* same error and every future waiting for it is rejected with it; if it was
\* settled before, it keeps its outcome.
C10_FailureRejectsSource ==
    [][ /\ thrown'[1] # "BuildError"
        /\ \A tech \in Techs :
              /\ (techRun[tech] = "idle" /\ techRun'[tech] = "threw")
                 => /\ Len(calls') = Len(calls) + 1
                    /\ RejectedWith(targetNames', techSource'[tech],
                                    BuildError(TechError(tech)))
              /\ (techRun[tech] = "pending" /\ techRun'[tech] = "failed")
                 => LET t == techSource[tech]
                        e == BuildError(TechError(tech))
                    IN  IF targetNames[t].st = "pending"
                        THEN /\ RejectedWith(targetNames', t, e)
                             /\ \A i \in DOMAIN calls :
                                   ( /\ calls[i].st = "pending"
                                     /\ \E k \in DOMAIN calls[i].els :
                                           calls[i].els[k] = El(t) )
                                   => /\ calls'[i].st = "rejected"
                                      /\ calls'[i].err = e
                        ELSE targetNames'[t] = targetNames[t] ]_vars

\* The future the build routine returned failed: the requested target "a" and
\* the call waiting for it are rejected with the routine's error.
C10_Witness ==
    /\ techRun["T1"] = "failed"
    /\ techSource["T1"] = "a"
    /\ RejectedWith(targetNames, "a", BuildError(TechError("T1")))
    /\ Len(calls) >= 1
    /\ calls[1].els = <<El("a")>>
    /\ calls[1].st = "rejected"
    /\ calls[1].err = BuildError(TechError("T1"))
    /\ thrown = NoErr


\* ---------------------------------------------------------------- C11
\* The names the call a chaining build() waits for was given.
Required(tech) ==
    IF techWait[tech] = 0 THEN {}
    ELSE {calls[techWait[tech]].els[k].name : k \in DOMAIN calls[techWait[tech]].els}

\* The names the building of target d has required, directly or through the
\* technologies of the names it required.
RECURSIVE RequiredFrom(_, _)
RequiredFrom(ds, n) ==
    IF n = 0 THEN ds
    ELSE RequiredFrom(ds \cup UNION {Required(targetNames[x].tech) :
                                       x \in {y \in ds : targetNames[y].tech # NoTech}},
                      n - 1)

RequiredTransitively(d) ==
    IF targetNames[d].tech = NoTech THEN {}
    ELSE RequiredFrom(Required(targetNames[d].tech), Cardinality(GraphNames))

C12_SiblingsStillComplete ==
    [][ LET Rej == {t \in GraphNames : /\ targetNames[t].st # "rejected"
                                       /\ targetNames'[t].st = "rejected"}
        IN  \A tech \in GraphTechs :
              /\ (Rej # {} /\ TargetOf(tech) \notin Rej /\ techRun[tech] = "pending")
                 => /\ techRun'[tech] = "pending"
                    /\ targetNames'[TargetOf(tech)] = targetNames[TargetOf(tech)]
              /\ (techRun[tech] = "pending" /\ techRun'[tech] = "done")
                 => targetNames'[TargetOf(tech)].st = "fulfilled" ]_vars

\* requireSources(["a", "c"]): the build routine of "a" throws, so the call is
\* rejected from the start; the technology of "c", started by the same call
\* after that, has completed and fulfilled "c".
C12_Witness ==
    /\ techReq = SiblingReq
    /\ Len(calls) >= 1
    /\ calls[1].els = <<El("a"), El("c")>>
    /\ calls[1].st = "rejected"
    /\ techRun["T1"] = "threw"
    /\ techRun["T3"] = "done"
    /\ targetNames["c"].st = "fulfilled"


C13_Original ==
    \A i \in DOMAIN cleanCalls :
        cleanCalls[i].st # "pending"
        => \A k \in DOMAIN cleanCalls[i].ps : cleans[cleanCalls[i].ps[k]].st # "pending"

\* C13, amended: a cleanTargets call that returned a future has invoked, for
\* each of its names in order, the clean routine of the technology bound to
\* that name, so that every name it was given has one; its future is fulfilled
\* exactly when all those routines' futures are fulfilled and rejected as soon
\* as one of them is, with that routine's error; and the error for a name
\* without a technology is thrown for a name that has none.
C13_CleansEachOrThrows ==
    /\ \A i \in DOMAIN cleanCalls :
          LET c == cleanCalls[i]
          IN  /\ Len(c.ps) = Len(c.names)
              /\ \A k \in DOMAIN c.names :
                    /\ targetNames[c.names[k]].tech # NoTech
                    /\ cleans[c.ps[k]].tech = targetNames[c.names[k]].tech
                    /\ cleans[c.ps[k]].st # "threw"
                    /\ \A l \in DOMAIN c.names : k < l => c.ps[k] < c.ps[l]
              /\ c.st = "fulfilled" <=> \A k \in DOMAIN c.ps : cleans[c.ps[k]].st = "fulfilled"
              /\ c.st = "rejected"
                 => \E k \in DOMAIN c.ps : /\ cleans[c.ps[k]].st = "rejected"
                                           /\ c.err = CleanError(cleans[c.ps[k]].tech)
              /\ c.st = "pending" => \A k \in DOMAIN c.ps : cleans[c.ps[k]].st # "rejected"
    /\ \A n \in Names :
          thrown = NoTechError(n) => targetNames[n].present /\ targetNames[n].tech = NoTech

\* cleanTargets(["a", "b"]) invoked the clean routine of the one technology
\* once for each name; the first future failed and rejected the call while the
\* second is unsettled.
C13_Witness ==
    /\ techs = OneTechTwoTargets
    /\ Len(cleanCalls) >= 1
    /\ cleanCalls[1].names = <<"a", "b">>
    /\ cleanCalls[1].ps = <<1, 2>>
    /\ cleans[1].st = "rejected"
    /\ cleans[2].st = "pending"
    /\ cleanCalls[1].st = "rejected"
    /\ cleanCalls[1].err = CleanError("T1")


\* ---------------------------------------------------------------- C14
\* The names a technology of the node is bound to.
Registered == {n \in Names : targetNames[n].tech # NoTech}

SeqSet(list) == {list[i] : i \in DOMAIN list}

NoRepeats(list) == \A i, j \in DOMAIN list : list[i] = list[j] => i = j

\* C14 as stated: with an empty default list, the list node.build(['*'])
\* computes holds the names registered by the node's technologies, all of them
\* and no others, each once; the first build of a fresh node included.
C14_Original ==
    \A i \in DOMAIN builds :
        (targetNamesToBuild = <<>> /\ builds[i].asked = Given(<<Wildcard>>))
        => /\ SeqSet(builds[i].targetsToBuild) = Registered
           /\ NoRepeats(builds[i].targetsToBuild)


\* ---------------------------------------------------------------- C15
\* Position of the first occurrence of x in list.
FirstAt(list, x) == SetMin({i \in DOMAIN list : list[i] = x})

\* r is list without its repetitions, in first-seen order.
IsFirstSeen(r, list) ==
    /\ NoRepeats(r)
    /\ SeqSet(r) = SeqSet(list)
    /\ \A i, j \in DOMAIN r : i < j => FirstAt(list, r[i]) < FirstAt(list, r[j])

\* C15: the list node.build works on is the expansion of what it was asked
\* for, without repetitions and in first-seen order (checked where the
\* expansion does not depend on the keys of the moment); the future it returned
\* is fulfilled only when every target of that list is fulfilled, and then
\* builtTargets is that list, in order, each name joined to the node's path; it
\* is rejected once any target of the list is rejected.
C15_BuildResult ==
    \A i \in DOMAIN builds :
        LET b == builds[i]
        IN  /\ NoRepeats(b.targetsToBuild)
            /\ ~b.asked.given => IsFirstSeen(b.targetsToBuild, targetNamesToBuild)
            /\ (b.asked.given /\ targetNamesToBuild # <<>>)
               => IsFirstSeen(b.targetsToBuild,
                              expandTargets(<<>>, b.asked.list, targetNamesToBuild))
            /\ b.call # 0
               => /\ calls[b.call].els =
                        [k \in DOMAIN b.targetsToBuild |->
                            [nf |-> targetNames[b.targetsToBuild[k]].tech = NoTech,
                             name |-> b.targetsToBuild[k]]]
                  /\ BuildFuture(b).st = "fulfilled"
                     => /\ \A k \in DOMAIN b.targetsToBuild :
                              targetNames[b.targetsToBuild[k]].st = "fulfilled"
                        /\ Len(BuildFuture(b).builtTargets) = Len(b.targetsToBuild)
                        /\ \A k \in DOMAIN b.targetsToBuild :
                              BuildFuture(b).builtTargets[k]
                                 = <<"pages", "index", b.targetsToBuild[k]>>
                  /\ (\E k \in DOMAIN b.targetsToBuild :
                         targetNames[b.targetsToBuild[k]].st = "rejected")
                     => BuildFuture(b).st = "rejected"

\* build(['*', 'b']) with the default list ['b', 'a']: both targets are
\* fulfilled and builtTargets is pages/index/b, pages/index/a.
C15_Witness ==
    /\ targetNamesToBuild = <<"b", "a">>
    /\ Len(builds) >= 1
    /\ builds[1].asked = Given(<<Wildcard, "b">>)
    /\ builds[1].targetsToBuild = <<"b", "a">>
    /\ builds[1].call = 1
    /\ BuildFuture(builds[1]).st = "fulfilled"
    /\ BuildFuture(builds[1]).builtTargets = << <<"pages", "index", "b">>, <<"pages", "index", "a">> >>


\* ================================================= the cache across runs
\* The node "pages/index" with the deps technology T2 owning "b", which it
\* builds from the levels "a" and the declaration "c"; T1 and T3 provide those
\* without writing a file. Each run of make works on a new node over the cache
\* the last successful run saved and the files on disk; attempts counts the
\* builds of all runs.

\* cache.needRebuildFile(key, path): no record, or the file is absent, or its
\* modification time is not the recorded one.
needRebuildFile(cache, key, times) ==
    cache[key] = 0 \/ times[KeyFile[key]] = 0 \/ cache[key] # times[KeyFile[key]]

\* cache.cacheFileInfo(key, path): the record is overwritten with the file's
\* modification time.
cacheFileInfo(cache, key, times) == [cache EXCEPT ![key] = times[KeyFile[key]]]

\* The modification time a file written or edited now gets.
NewTime ==
    1 + CHOOSE m \in {mtime[f] : f \in DOMAIN mtime} : \A f \in DOMAIN mtime : mtime[f] <= m

\* node.build(targets) of a node whose technologies chain.
BuildChained(targets, beh) ==
    LET targetsToBuild ==
            resolveTargets(keyOrder, targets, targetNamesToBuild, targetNamesToBuild)
    IN  /\ requireChainedStep(targetsToBuild, beh)
        /\ keyOrder' = keysAfter(keyOrder, targetNames',
                                 RegNames(techs) \o [i \in DOMAIN targetsToBuild |->
                                                       unmaskTargetName(targetsToBuild[i])])
        /\ builds' = Append(builds, [asked |-> targets,
                                     targetsToBuild |-> targetsToBuild,
                                     call |-> IF thrown' = NoErr THEN Len(calls') ELSE 0])
        /\ UNCHANGED <<cacheVars, makeVars, entryVars, targetNamesToBuild, targetNamesToClean, buildState,
                       cleans, cleanCalls>>

\* Mutant: the entries are recorded when the write starts.
DepsThenRecordsEarly(tech) ==
    /\ techReq[tech].chained
    /\ techRun[tech] = "pending"
    /\ techWait[tech] # 0
    /\ calls[techWait[tech]].st = "fulfilled"
    /\ tech \notin writing
    /\ writing' = writing \cup {tech}
    /\ cacheData' = [k \in DOMAIN KeyFile |-> IF KeyFile[k] = TargetOf(tech) THEN NewTime
                                              ELSE mtime[KeyFile[k]]]
    /\ UNCHANGED <<techs, registerDone, targetNames, techStarted, techRun, techSource,
                   buildCount, calls, logged, attempts, thrown, chainVars, buildVars,
                   savedCache, mtime, pastRuns, makeVars, entryVars>>

\* Mutant: the callback rebuilds whatever the cache says.
DepsThenAlwaysWrites(tech) ==
    /\ techReq[tech].chained
    /\ techRun[tech] = "pending"
    /\ techWait[tech] # 0
    /\ calls[techWait[tech]].st = "fulfilled"
    /\ tech \notin writing
    /\ writing' = writing \cup {tech}
    /\ UNCHANGED <<techs, registerDone, targetNames, techStarted, techRun, techSource,
                   buildCount, calls, logged, attempts, thrown, chainVars, buildVars,
                   cacheData, savedCache, mtime, pastRuns, makeVars, entryVars>>

\* The callback of deps.build, run when its sources are there: it asks the
\* cache about the target file, the declaration and the levels' files, and
\* starts writing the target, or marks it valid and resolves it.
DepsThen(tech) ==
    /\ techReq[tech].chained
    /\ techRun[tech] = "pending"
    /\ techWait[tech] # 0
    /\ calls[techWait[tech]].st = "fulfilled"
    /\ tech \notin writing
    /\ IF {k \in DOMAIN KeyFile : needRebuildFile(cacheData, k, mtime)} # {}
       THEN /\ writing' = writing \cup {tech}
            /\ UNCHANGED <<techs, registerDone, targetNames, techStarted, techRun,
                           techSource, buildCount, calls, logged, attempts, thrown,
                           chainVars, buildVars, cacheData, savedCache, mtime, pastRuns, makeVars, entryVars>>
       ELSE /\ techRun' = [techRun EXCEPT ![tech] = "done"]
            /\ FrameNode(resolveTarget(isValidTarget(NodeState, TargetOf(tech)),
                                       TargetOf(tech), MergedValue))
            /\ UNCHANGED <<chainVars, buildVars, cacheVars, makeVars, entryVars>>

\* vowFs.write succeeded: the three entries are recorded, then the target is
\* resolved.
WriteDone(tech) ==
    /\ tech \in writing
    /\ writing' = writing \ {tech}
    /\ mtime' = [mtime EXCEPT ![TargetOf(tech)] = NewTime]
    /\ cacheData' = cacheFileInfo(cacheFileInfo(cacheFileInfo(cacheData,
                        "deps-file", mtime'), "bemdecl-file", mtime'), "deps-file-list", mtime')
    /\ techRun' = [techRun EXCEPT ![tech] = "done"]
    /\ FrameNode(resolveTarget(NodeState, TargetOf(tech), MergedValue))
    /\ UNCHANGED <<chainVars, buildVars, savedCache, pastRuns, makeVars, entryVars>>

\* vowFs.write failed: the future build() returned is rejected, nothing is
\* recorded.
WriteFailed(tech) ==
    /\ tech \in writing
    /\ writing' = writing \ {tech}
    /\ techRun' = [techRun EXCEPT ![tech] = "failed"]
    /\ FrameNode(rejectTarget(NodeState, techSource[tech], BuildError(TechError(tech))))
    /\ UNCHANGED <<chainVars, buildVars, cacheData, savedCache, mtime, pastRuns, makeVars, entryVars>>

\* What a finished run leaves for the history.
RunRecord(saved, touch) ==
    [built |-> buildCount["T2"], log |-> logged["b"], st |-> targetNames["b"].st,
     futures |-> [i \in DOMAIN builds |-> BuildFuture(builds[i])],
     saved |-> saved, touch |-> touch]

\* make: once every build of the run has settled, the cache is saved if all
\* were fulfilled (and saving may fail), the platform is destructed, and the
\* next run, after the files in touch were edited, loads the saved cache into
\* a new node.
NextRun(saved, touch) ==
    /\ builds # <<>>
    /\ {i \in DOMAIN calls : calls[i].st = "pending"} = {}
    /\ {t \in GraphTechs : techRun[t] = "pending"} = {}
    /\ {i \in DOMAIN builds : builds[i].call = 0} = {}
    /\ saved => {i \in DOMAIN calls : calls[i].st # "fulfilled"} = {}
    /\ pastRuns' = Append(pastRuns, RunRecord(saved, touch))
    /\ savedCache' = IF saved THEN cacheData ELSE savedCache
    /\ cacheData' = savedCache'
    /\ mtime' = [f \in DOMAIN mtime |-> IF f \in touch THEN NewTime ELSE mtime[f]]
    /\ registerDone' = FALSE
    /\ targetNames' = [n \in GraphNames |-> NoTarget]
    /\ techStarted' = [t \in GraphTechs |-> FALSE]
    /\ techRun' = [t \in GraphTechs |-> "idle"]
    /\ techSource' = [t \in GraphTechs |-> NoVal]
    /\ buildCount' = [t \in GraphTechs |-> 0]
    /\ techWait' = [t \in GraphTechs |-> 0]
    /\ calls' = <<>>
    /\ logged' = [n \in GraphNames |-> {}]
    /\ thrown' = NoErr
    /\ keyOrder' = <<>>
    /\ builds' = <<>>
    /\ UNCHANGED <<techs, techReq, attempts, writing, targetNamesToBuild, targetNamesToClean,
                   buildState, cleans, cleanCalls, makeVars, entryVars>>

\* The files edited between two runs: none, a source, or the target itself.
Touches == {{}, {"c"}, {"b"}}

RunsInit == GraphInit /\ techReq = TwoSourcesReq

RunsNext ==
    \/ \E beh \in [GraphTechs -> Behaviours] : BuildChained(Given(<<"b">>), beh)
    \/ \E tech \in GraphTechs : DepsThen(tech)
    \/ \E tech \in GraphTechs : WriteDone(tech)
    \/ \E tech \in GraphTechs : WriteFailed(tech)
    \/ \E tech \in GraphTechs : ChainFail(tech)
    \/ \E tech \in GraphTechs : FreeResolve(tech, SourceValue)
    \/ \E tech \in GraphTechs : FreeFailed(tech)
    \/ \E saved \in BOOLEAN, touch \in Touches : NextRun(saved, touch)

SpecRuns == RunsInit /\ [][RunsNext]_vars


\* ---- C16
\* The run at hand follows a run whose cache was saved, with no file edited in
\* between.
AfterSavedRun ==
    /\ pastRuns # <<>>
    /\ pastRuns[Len(pastRuns)].saved
    /\ pastRuns[Len(pastRuns)].touch = {}

DepsBuilt(i) ==
    /\ BuildFuture(builds[i]).st = "fulfilled"
    /\ BuildFuture(builds[i]).builtTargets = <<PathJoin(NodePath, "b")>>

\* C16 as stated: the first build, over an empty cache, executes the deps
\* technology A (T2) exactly once and yields builtTargets = ["pages/index/b"];
\* a build over the unmodified saved cache and unchanged files is fulfilled
\* with the target marked valid and A's build routine not invoked.
C16_Original ==
    \A i \in DOMAIN builds :
        BuildFuture(builds[i]).st = "fulfilled" =>
            /\ DepsBuilt(i)
            /\ pastRuns = <<>> => buildCount["T2"] = 1
            /\ AfterSavedRun =>
                  /\ targetNames["b"].isValid
                  /\ "valid" \in logged["b"]
                  /\ buildCount["T2"] = 0

\* C16, amended: every fulfilled build of ["b"] yields builtTargets =
\* ["pages/index/b"] with A's build routine invoked exactly once on that node,
\* however many builds the node has served. Over an empty cache the target is
\* written and logged as rebuilt, and is not marked valid, by a second build
\* of the same node either. Over the unmodified saved cache and unchanged
\* files A's build routine is invoked too, and it marks the target valid
\* without writing it: the file keeps the modification time the cache holds.
C16_SecondRunValid ==
    /\ buildCount["T2"] <= 1
    /\ AfterSavedRun => writing = {} /\ mtime["b"] = savedCache["deps-file"]
    /\ \A i \in DOMAIN builds :
           BuildFuture(builds[i]).st = "fulfilled" =>
               /\ DepsBuilt(i)
               /\ buildCount["T2"] = 1
               /\ pastRuns = <<>> =>
                     /\ ~targetNames["b"].isValid
                     /\ logged["b"] = {"rebuild"}
               /\ AfterSavedRun =>
                     /\ targetNames["b"].isValid
                     /\ "valid" \in logged["b"]
                     /\ "rebuild" \notin logged["b"]

\* The second run, over the cache the first saved, has been fulfilled after
\* the first wrote the target.
C16_Witness ==
    /\ Len(pastRuns) = 1
    /\ AfterSavedRun
    /\ pastRuns[1].log = {"rebuild"}
    /\ pastRuns[1].built = 1
    /\ Len(builds) = 1
    /\ BuildFuture(builds[1]).st = "fulfilled"
    /\ targetNames["b"].isValid


\* ---- C17
\* C17 as stated: a settled target has its started flag set, and the flag is
\* never set after the target has settled.
C17_Original ==
    [][ \A t \in Names :
            /\ targetNames'[t].st # "pending" => targetNames'[t].started
            /\ (Settled(t) /\ ~targetNames[t].started) => ~targetNames'[t].started ]_vars

\* C17, amended: a target's started flag, once set, stays set, and a settled
\* target stays settled with its outcome. The flag is set by requireSources
\* only, for a target that has a technology, and not by resolveTarget,
\* isValidTarget or rejectTarget: a technology that settles a target of its own
\* which no call has requested leaves it settled and not started, and a later
\* requireSources for that target sets the flag after settlement, changing
\* nothing else of the target and invoking no build routine.
C17_StartedBySourcesOnly ==
    [][ \A t \in Names :
            /\ targetNames[t].started => targetNames'[t].started
            /\ Settled(t) => targetNames'[t].st = targetNames[t].st
            /\ (targetNames'[t].started /\ ~targetNames[t].started)
               => /\ attempts' = attempts + 1
                  /\ targetNames'[t].tech # NoTech
                  /\ Settled(t)
                     => /\ targetNames'[t] = [targetNames[t] EXCEPT !.started = TRUE]
                        /\ buildCount' = buildCount
            /\ attempts' = attempts => targetNames'[t].started = targetNames[t].started
            /\ (Settled(t) /\ ~targetNames[t].started)
               => /\ techStarted[targetNames[t].tech]
                  /\ buildCount[targetNames[t].tech] = 1 ]_vars

\* The one technology, started for "a", has resolved its other target "b",
\* which no call has requested: "b" is settled and not started.
C17_Witness ==
    /\ techs = OneTechTwoTargets
    /\ targetNames["a"].started
    /\ targetNames["b"].st = "fulfilled"
    /\ ~targetNames["b"].started
    /\ buildCount["T1"] = 1


\* ================================================= the platform's teardown
\* What the platform's operations leave alone.
MakeFrame ==
    UNCHANGED <<techs, registerDone, targetNames, techStarted, techRun, techSource,
                buildCount, calls, logged, attempts, thrown, chainVars, buildVars,
                cacheVars, entryVars>>

\* new Node(nodePath, makePlatform, cache)
NewNode == [NoNode EXCEPT !.made = TRUE, !.makePlatform = TRUE, !.nodeCache = TRUE,
                          !.techs = TRUE]

\* Mutant: the node keeps its cache.
nodeDestructKeepsCache(n) ==
    [n EXCEPT !.makePlatform = FALSE, !.techs = FALSE, !.destructs = @ + 1, !.err = NoErr]

\* node.destruct(): this._nodeCache.destruct() on a node whose _nodeCache was
\* deleted is a call on undefined, which throws before _techs is deleted.
nodeDestruct(n) ==
    IF n.nodeCache
    THEN [n EXCEPT !.makePlatform = FALSE, !.nodeCache = FALSE, !.techs = FALSE,
                   !.cacheDestructs = @ + 1, !.destructs = @ + 1, !.err = NoErr]
    ELSE [n EXCEPT !.makePlatform = FALSE, !.destructs = @ + 1, !.err = TypeError]

\* makePlatform.init(root, mode, config): the project config is there.
PlatformInit ==
    /\ ~platform.inited
    /\ platform.destructs = 0
    /\ platform' = [platform EXCEPT !.inited = TRUE, !.projectConfig = TRUE]
    /\ UNCHANGED nodes
    /\ MakeFrame

\* makePlatform.setCacheStorage(cacheStorage)
SetCacheStorage ==
    /\ ~platform.cacheStorage
    /\ platform.destructs = 0
    /\ platform' = [platform EXCEPT !.cacheStorage = TRUE]
    /\ UNCHANGED nodes
    /\ MakeFrame

\* makePlatform.build(targets) has settled, fulfilled ("ok") or rejected.
PlatformBuild(outcome) ==
    /\ platform.inited
    /\ platform.destructs = 0
    /\ platform.built = "never"
    /\ platform' = [platform EXCEPT !.built = outcome]
    /\ UNCHANGED nodes
    /\ MakeFrame

\* makePlatform.initNode(path): the node is instantiated on first reference.
InitNode(p) ==
    /\ platform.inited
    /\ platform.destructs = 0
    /\ ~nodes[p].made
    /\ nodes' = [nodes EXCEPT ![p] = NewNode]
    /\ UNCHANGED platform
    /\ MakeFrame

\* makePlatform.destruct(): the shared resources first, then the project
\* config, the cache storage and the reference to it, and every node; a
\* repeated call tears nothing down. The platform owns its nodes: nobody has
\* destructed one behind its back.
PlatformDestruct ==
    /\ platform.destructs < MaxCalls
    /\ {p \in NodePaths : nodes[p].destructs # 0 /\ platform.destructs = 0} = {}
    /\ IF platform.destructs = 0
       THEN /\ platform' = [platform EXCEPT !.sharedDestructs = @ + 1,
                                            !.projectConfig = FALSE,
                                            !.dropped = IF platform.cacheStorage
                                                        THEN @ + 1 ELSE @,
                                            !.cacheStorage = FALSE,
                                            !.destructs = @ + 1]
            /\ nodes' = [p \in NodePaths |->
                           IF nodes[p].made THEN nodeDestruct(nodes[p]) ELSE nodes[p]]
       ELSE /\ platform' = [platform EXCEPT !.destructs = @ + 1]
            /\ UNCHANGED nodes
    /\ MakeFrame

\* node.destruct() called on a node.
NodeDestruct(p) ==
    /\ nodes[p].made
    /\ nodes[p].destructs < MaxCalls
    /\ nodes' = [nodes EXCEPT ![p] = nodeDestruct(@)]
    /\ UNCHANGED platform
    /\ MakeFrame

MakeNext ==
    \/ PlatformInit
    \/ SetCacheStorage
    \/ \E outcome \in {"ok", "failed"} : PlatformBuild(outcome)
    \/ \E p \in NodePaths : InitNode(p)
    \/ PlatformDestruct
    \/ \E p \in NodePaths : NodeDestruct(p)

SpecMake == RunsInit /\ [][MakeNext]_vars

\* ---- C19
\* C19: the platform's destruct() destructs the shared resources, drops the
\* cache storage it has, leaves the references to the project config and to
\* the cache storage undefined, and invokes destruct on every instantiated
\* node, which drops its cache and its references to the platform and to its
\* technologies.
C19_TeardownComplete ==
    [][ (platform.destructs = 0 /\ platform'.destructs = 1)
        => /\ platform'.sharedDestructs = 1
           /\ ~platform'.projectConfig
           /\ ~platform'.cacheStorage
           /\ platform.cacheStorage => platform'.dropped = 1
           /\ \A p \in NodePaths :
                 nodes[p].made
                 => /\ nodes'[p].destructs = 1
                    /\ nodes'[p].cacheDestructs = 1
                    /\ nodes'[p].err = NoErr
                    /\ ~nodes'[p].nodeCache
                    /\ ~nodes'[p].techs
                    /\ ~nodes'[p].makePlatform ]_vars

\* An initialised platform with a cache storage and both nodes was destructed.
C19_Witness ==
    /\ platform.destructs = 1
    /\ platform.inited
    /\ platform.dropped = 1
    /\ platform.sharedDestructs = 1
    /\ \A p \in NodePaths : nodes[p].made /\ nodes[p].destructs = 1

\* ---- C20
\* C20 as stated: destruct is safe to call twice and without a prior build; a
\* second call raises no error and tears nothing further down, on a node's own
\* destruct too.
C20_Original ==
    \A p \in NodePaths :
        /\ nodes[p].err = NoErr
        /\ nodes[p].cacheDestructs <= 1
        /\ nodes[p].destructs >= 1 => ~nodes[p].nodeCache /\ ~nodes[p].techs


\* ================================================= the make entry point
\* make(targets, options) over the node "pages/index" of the cache section:
\* init, loadCache, build, then saveCacheAsync and destruct, with one fail
\* handler behind the whole chain. entry.events lists the platform calls make
\* has made and the completions it has seen, oldest first.
InitError == <<"Error", "init">>
SaveError == <<"Error", "save">>

\* Mutant: the handler swallows every error.
failHandlerSwallowsAll(e, err) == [e EXCEPT !.phase = "done", !.st = "fulfilled"]

\* The fail handler: a target-not-found error is swallowed when strict is off,
\* which logs through the logger; every other error is thrown again.
failHandler(e, err) ==
    IF ~e.strict /\ err[1] = "TargetNotFound"
    THEN IF e.logger THEN [e EXCEPT !.phase = "done", !.st = "fulfilled"]
         ELSE [e EXCEPT !.phase = "done", !.st = "rejected", !.err = TypeError]
    ELSE [e EXCEPT !.phase = "done", !.st = "rejected", !.err = err]

EntryFrame ==
    UNCHANGED <<techs, registerDone, targetNames, techStarted, techRun, techSource,
                buildCount, calls, logged, attempts, thrown, chainVars, buildVars,
                cacheData, mtime, writing, pastRuns, makeVars, fileList>>

\* make is called: the platform is created and init is under way.
MakeCalled(strict, cache) ==
    /\ entry.phase = "idle"
    /\ entry' = [entry EXCEPT !.phase = "init", !.strict = strict, !.cache = cache]
    /\ UNCHANGED savedCache
    /\ EntryFrame

\* init is fulfilled: the logger is there, the cache is loaded if asked for,
\* and makePlatform.build is about to be called.
InitDone ==
    /\ entry.phase = "init"
    /\ entry' = [entry EXCEPT !.phase = "build", !.logger = TRUE,
                              !.events = IF entry.cache THEN Append(@, "loadCache") ELSE @]
    /\ UNCHANGED savedCache
    /\ EntryFrame

\* init is rejected, before there is a logger.
InitFailed ==
    /\ entry.phase = "init"
    /\ entry' = failHandler(entry, InitError)
    /\ UNCHANGED savedCache
    /\ EntryFrame

\* makePlatform.build(targets), which builds ["b"] on the node.
EntryBuild(beh) ==
    /\ entry.phase = "build"
    /\ builds = <<>>
    /\ BuildChained(Given(<<"b">>), beh)

\* Mutant: saveCacheAsync is called as soon as build has returned.
BuildSettledEarly ==
    /\ entry.phase = "build"
    /\ builds # <<>>
    /\ entry' = [entry EXCEPT !.phase = "save", !.events = Append(@, "saveCacheAsync")]
    /\ UNCHANGED savedCache
    /\ EntryFrame

\* Mutant: the cache is saved whether the build was fulfilled or rejected.
BuildSettledAlwaysSaves ==
    /\ entry.phase = "build"
    /\ builds # <<>>
    /\ BuildFuture(builds[1]).st # "pending"
    /\ entry' = [entry EXCEPT !.phase = "save", !.events = Append(@, "saveCacheAsync")]
    /\ UNCHANGED savedCache
    /\ EntryFrame

\* The future of makePlatform.build has settled: fulfilled, saveCacheAsync is
\* called; rejected, the fail handler runs.
BuildSettled ==
    /\ entry.phase = "build"
    /\ builds # <<>>
    /\ BuildFuture(builds[1]).st # "pending"
    /\ entry' = IF BuildFuture(builds[1]).st = "fulfilled"
                THEN [entry EXCEPT !.phase = "save", !.events = Append(@, "saveCacheAsync")]
                ELSE failHandler(entry, BuildFuture(builds[1]).err)
    /\ UNCHANGED savedCache
    /\ EntryFrame

\* Mutant: destruct follows saveCacheAsync whether it was fulfilled or not.
SavedIgnoresFailure(ok) ==
    /\ entry.phase = "save"
    /\ entry' = [entry EXCEPT !.phase = "done", !.st = "fulfilled",
                              !.events = @ \o <<IF ok THEN "saved" ELSE "saveFailed",
                                                "destruct">>]
    /\ savedCache' = IF ok THEN cacheData ELSE savedCache
    /\ EntryFrame

\* saveCacheAsync has settled: fulfilled, vow.when calls destruct and make is
\* fulfilled; rejected, destruct is not called and the fail handler runs.
Saved(ok) ==
    /\ entry.phase = "save"
    /\ entry' = IF ok
                THEN [entry EXCEPT !.phase = "done", !.st = "fulfilled",
                                   !.events = @ \o <<"saved", "destruct">>]
                ELSE failHandler([entry EXCEPT !.events = Append(@, "saveFailed")],
                                 SaveError)
    /\ savedCache' = IF ok THEN cacheData ELSE savedCache
    /\ EntryFrame

\* The node of the run: every target owned, or the declaration "c" owned by
\* no technology, so that requiring it is a target-not-found failure.
EntryInit ==
    /\ techs \in {GraphTechList, SubSeq(GraphTechList, 1, 2)}
    /\ techReq = TwoSourcesReq
    /\ registerDone = FALSE
    /\ targetNames = [n \in GraphNames |-> NoTarget]
    /\ techStarted = [t \in GraphTechs |-> FALSE]
    /\ techRun = [t \in GraphTechs |-> "idle"]
    /\ techSource = [t \in GraphTechs |-> NoVal]
    /\ buildCount = [t \in GraphTechs |-> 0]
    /\ techWait = [t \in GraphTechs |-> 0]
    /\ NoBuilds
    /\ calls = <<>>
    /\ logged = [n \in GraphNames |-> {}]
    /\ attempts = 0
    /\ thrown = NoErr

EntryNext ==
    \/ \E strict \in BOOLEAN, cache \in BOOLEAN : MakeCalled(strict, cache)
    \/ InitDone
    \/ InitFailed
    \/ \E beh \in [GraphTechs -> Behaviours] : EntryBuild(beh)
    \/ \E tech \in GraphTechs : DepsThen(tech)
    \/ \E tech \in GraphTechs : WriteDone(tech)
    \/ \E tech \in GraphTechs : WriteFailed(tech)
    \/ \E tech \in GraphTechs : ChainFail(tech)
    \/ \E tech \in GraphTechs : FreeResolve(tech, SourceValue)
    \/ \E tech \in GraphTechs : FreeFailed(tech)
    \/ BuildSettled
    \/ \E ok \in BOOLEAN : Saved(ok)

SpecEntry == EntryInit /\ [][EntryNext]_vars


\* ---- C21
\* The position of the first occurrence of an event in entry.events, 0 if none.
EventAt(ev) ==
    IF \E i \in DOMAIN entry.events : entry.events[i] = ev
    THEN CHOOSE i \in DOMAIN entry.events :
            entry.events[i] = ev /\ \A j \in 1..(i - 1) : entry.events[j] # ev
    ELSE 0

\* C21: in a run of make, destruct is invoked only after saveCacheAsync has
\* been invoked and has completed, and saveCacheAsync is invoked only after
\* the future of build has been fulfilled.
C21_BuildSaveDestruct ==
    /\ EventAt("destruct") # 0
       => /\ EventAt("saveCacheAsync") # 0
          /\ EventAt("saveCacheAsync") < EventAt("saved")
          /\ EventAt("saved") < EventAt("destruct")
    /\ EventAt("saveCacheAsync") # 0
       => /\ builds # <<>>
          /\ BuildFuture(builds[1]).st = "fulfilled"

\* A run that built, saved and destructed.
C21_Witness ==
    /\ entry.phase = "done"
    /\ entry.st = "fulfilled"
    /\ EventAt("destruct") # 0
    /\ targetNames["b"].st = "fulfilled"


\* ---- C22
\* The error the finished run of make failed with, NoErr if nothing failed.
EntryFailure ==
    IF ~entry.logger THEN InitError
    ELSE IF builds # <<>> /\ BuildFuture(builds[1]).st = "rejected"
         THEN BuildFuture(builds[1]).err
         ELSE IF EventAt("saveFailed") # 0 THEN SaveError ELSE NoErr

\* C22: a run of make that failed with a target-not-found error is fulfilled
\* exactly when strict mode is off; in strict mode, and for every other error
\* in either mode, it is rejected with that error.
C22_SwallowOnlyLenientNotFound ==
    entry.phase = "done"
    => IF EntryFailure = NoErr THEN entry.st = "fulfilled"
       ELSE IF EntryFailure[1] = "TargetNotFound" /\ ~entry.strict
            THEN entry.st = "fulfilled"
            ELSE entry.st = "rejected" /\ entry.err = EntryFailure

\* Strict mode off, the build rejected because "c" has no technology: make is
\* fulfilled.
C22_Witness ==
    /\ entry.phase = "done"
    /\ ~entry.strict
    /\ EntryFailure = TargetNotFound("c")
    /\ entry.st = "fulfilled"


\* ---- C23
\* C23: when saveCacheAsync fails after a fulfilled build, make is rejected
\* with the save's error in that very step, which invokes no destruct and
\* leaves every target, every future handed out and the saved cache as they
\* were; the targets settled in the run keep their outcomes from then on.
C23_SaveFailureSurfaces ==
    [][ /\ (EventAt("saveFailed") = 0 /\ EventAt("saveFailed")' # 0)
           => /\ BuildFuture(builds[1]).st = "fulfilled"
              /\ entry'.st = "rejected"
              /\ entry'.err = SaveError
              /\ EventAt("destruct")' = 0
              /\ targetNames' = targetNames
              /\ calls' = calls
              /\ savedCache' = savedCache
        /\ EventAt("saveFailed") # 0
           => /\ entry' = entry
              /\ \A t \in GraphNames :
                    targetNames[t].st # "pending"
                    => /\ targetNames'[t].st = targetNames[t].st
                       /\ targetNames'[t].val = targetNames[t].val
                       /\ targetNames'[t].err = targetNames[t].err ]_vars

\* The build was fulfilled, the save failed, make is rejected and "b" is still
\* fulfilled.
C23_Witness ==
    /\ entry.phase = "done"
    /\ EventAt("saveFailed") # 0
    /\ entry.st = "rejected"
    /\ entry.err = SaveError
    /\ targetNames["b"].st = "fulfilled"
    /\ BuildFuture(builds[1]).st = "fulfilled"


\* ---- C30
\* C30: make invokes saveCacheAsync and destruct on the success path only. A
\* run whose init or build was rejected, a target-not-found failure swallowed
\* in lenient mode included, has invoked neither; a run whose saveCacheAsync
\* was rejected has not invoked destruct; a run that invoked destruct was
\* fulfilled.
C30_SaveAndDestructOnSuccessOnly ==
    /\ (builds # <<>> /\ BuildFuture(builds[1]).st = "rejected")
       => EventAt("saveCacheAsync") = 0 /\ EventAt("destruct") = 0
    /\ (entry.phase = "done" /\ ~entry.logger)
       => EventAt("saveCacheAsync") = 0 /\ EventAt("destruct") = 0
    /\ EventAt("saveFailed") # 0 => EventAt("destruct") = 0
    /\ EventAt("destruct") # 0 => entry.st = "fulfilled" /\ EntryFailure = NoErr

\* Lenient mode: the build was rejected for a target without technology, make
\* is fulfilled, and neither saveCacheAsync nor destruct was invoked.
C30_Witness ==
    /\ entry.phase = "done"
    /\ entry.st = "fulfilled"
    /\ ~entry.strict
    /\ BuildFuture(builds[1]).st = "rejected"
    /\ BuildFuture(builds[1]).err[1] = "TargetNotFound"
    /\ EventAt("saveCacheAsync") = 0
    /\ EventAt("destruct") = 0


\* ---- C24
\* C24: the step in which a technology's build routine completes without
\* failing, by returning a value or by its future being fulfilled, settles
\* none of that technology's targets, whether started or not: each keeps its
\* state, value and error, and every pending future of requireSources that
\* waits for such targets only stays pending. A build routine that made no
\* call into the node thus leaves its target unsettled.
C24_CompletionSettlesNothing ==
    [][ \A tech \in Techs :
            (techRun[tech] # "done" /\ techRun'[tech] = "done")
            => /\ \A t \in Names :
                     targetNames'[t].tech = tech
                     => /\ targetNames'[t].st = targetNames[t].st
                        /\ targetNames'[t].val = targetNames[t].val
                        /\ targetNames'[t].err = targetNames[t].err
               /\ \A i \in DOMAIN calls :
                     ( /\ calls[i].st = "pending"
                       /\ \A k \in DOMAIN calls[i].els :
                             targetNames[calls[i].els[k].name].tech = tech )
                     => calls'[i].st = "pending" ]_vars

\* The build routine of T1 has completed, and "a", which it was started for,
\* is unsettled, as is the call that waits for it.
C24_Witness ==
    /\ techRun["T1"] = "done"
    /\ targetNames["a"].tech = "T1"
    /\ targetNames["a"].started
    /\ targetNames["a"].st = "pending"
    /\ Len(calls) >= 1
    /\ calls[1].els = <<El("a")>>
    /\ calls[1].st = "pending"


\* ---- C25
\* node.hasRegisteredTarget(name): whether _targetNames has an entry under the
\* name, which _getTarget creates for any name it is asked for.
hasRegisteredTarget(tn, name) == tn[name].present

\* C25 as stated: hasRegisteredTarget(name) is true if and only if a
\* technology is bound to the target of that name, after any sequence of
\* calls.
C25_Original ==
    \A t \in Names : hasRegisteredTarget(targetNames, t) <=> targetNames[t].tech # NoTech


\* ================================================= FileList
\* Mutant: the per-suffix index takes new files at its front.
RECURSIVE addFilesIndexFront(_, _)
addFilesIndexFront(fl, files) ==
    IF files = <<>> THEN fl
    ELSE LET file == files[1]
             old  == IF fl.bySuffix[file.suffix] = Undefined THEN <<>>
                     ELSE fl.bySuffix[file.suffix]
         IN  addFilesIndexFront([fl EXCEPT !.items = Append(@, file),
                                           !.bySuffix[file.suffix] = <<file>> \o old],
                                Tail(files))

\* The loop of fileList.addFiles(files), file by file.
RECURSIVE addFiles(_, _)
addFiles(fl, files) ==
    IF files = <<>> THEN fl
    ELSE LET file == files[1]
             old  == IF fl.bySuffix[file.suffix] = Undefined THEN <<>>
                     ELSE fl.bySuffix[file.suffix]
         IN  addFiles([fl EXCEPT !.items = Append(@, file),
                                 !.bySuffix[file.suffix] = Append(old, file)],
                      Tail(files))

\* The files of the slices whose suffix is in the set, slice after slice.
RECURSIVE fromSlices(_, _)
fromSlices(slices, suffixes) ==
    IF slices = <<>> THEN <<>>
    ELSE SelectSeq(slices[1], LAMBDA file : file.suffix \in suffixes)
         \o fromSlices(Tail(slices), suffixes)

\* fileList.getBySuffix(suffix), the argument a string (array FALSE) or an
\* array of strings.
getBySuffix(fl, suffix) ==
    LET arg == IF suffix.array /\ Len(suffix.v) = 1
               THEN [array |-> FALSE, v |-> suffix.v[1]]
               ELSE suffix
    IN  IF arg.array
        THEN fromSlices(fl.slices, {arg.v[i] : i \in DOMAIN arg.v})
        ELSE IF fl.bySuffix[arg.v] = Undefined THEN <<>> ELSE fl.bySuffix[arg.v]

\* The arrays addFiles is given: up to two files, the same file twice included.
FileLists == UNION {[1..n -> FileUniverse] : n \in 0..2}

\* fileList.addFiles(files)
AddFiles(files) ==
    /\ Len(fileList.slices) < MaxCalls
    /\ fileList' = addFiles([fileList EXCEPT !.slices = Append(@, files)], files)
    /\ UNCHANGED <<techs, registerDone, targetNames, techStarted, techRun, techSource,
                   buildCount, calls, logged, attempts, thrown, chainVars, buildVars,
                   cacheVars, makeVars, entry>>

FilesNext == \E files \in FileLists : AddFiles(files)

SpecFiles == RunsInit /\ [][FilesNext]_vars

\* ---- C26
\* The added files whose suffix is in the set, in insertion order.
Having(suffixes) == SelectSeq(fileList.items, LAMBDA file : file.suffix \in suffixes)

C27_TechBoundOnce ==
    [][ /\ \A t \in Names :
              targetNames[t].tech # NoTech => targetNames'[t].tech = targetNames[t].tech
        /\ registerDone
           => /\ registerDone'
              /\ \A t \in Names : targetNames'[t].tech = targetNames[t].tech
              /\ thrown'[1] # "ConfigError" ]_vars

\* Registration has succeeded and the node has served a second call, a clean
\* after a build; the technology of "a" is the one registered.
C27_Witness ==
    /\ registerDone
    /\ attempts = 2
    /\ Len(builds) = 1
    /\ buildState = "empty"
    /\ targetNames["a"].tech = "T1"
    /\ targetNames["a"].st # "pending"


\* ---- C28
\* C28: within a run the cache changes only in the step in which the write of
\* a technology's target file has succeeded: that step records the
\* modification times the files then have and resolves the target, which was
\* unsettled until then, so whoever sees the target resolved finds the entries
\* recorded. The step in which a technology fails, by a failed write or by a
\* rejected source requirement, leaves the cache as it was. On a cache hit the
\* target is marked valid and resolved in one step that logs no rebuild, the
\* mark being set by the time resolveTarget looks at it, and neither the cache
\* nor a file changes.
C28_CacheAfterWriteOnly ==
    [][ pastRuns' = pastRuns
        => /\ cacheData' # cacheData
              => \E tech \in writing :
                    /\ tech \notin writing'
                    /\ mtime'[TargetOf(tech)] # mtime[TargetOf(tech)]
                    /\ targetNames[TargetOf(tech)].st = "pending"
                    /\ targetNames'[TargetOf(tech)].st = "fulfilled"
                    /\ \A k \in DOMAIN KeyFile : cacheData'[k] = mtime'[KeyFile[k]]
           /\ \A tech \in GraphTechs :
                 (techRun[tech] # "failed" /\ techRun'[tech] = "failed")
                 => cacheData' = cacheData /\ mtime' = mtime
           /\ \A t \in GraphNames :
                 (~targetNames[t].isValid /\ targetNames'[t].isValid)
                 => /\ targetNames[t].st = "pending"
                    /\ targetNames'[t].st = "fulfilled"
                    /\ logged'[t] = {"valid"}
                    /\ cacheData' = cacheData
                    /\ mtime' = mtime
                    /\ writing' = writing ]_vars

\* A run whose write failed after an earlier run had recorded the target: the
\* cache still holds what that run saved.
C28_Witness ==
    /\ Len(pastRuns) = 1
    /\ pastRuns[1].saved
    /\ pastRuns[1].touch = {"c"}
    /\ techRun["T2"] = "failed"
    /\ techSource["T2"] = "b"
    /\ targetNames["b"].st = "rejected"
    /\ targetNames["c"].st = "fulfilled"
    /\ cacheData = savedCache
    /\ cacheData["deps-file"] = mtime["b"]


\* ================================================= settled futures run
\* The futures build routines return settle, and the event loop runs their
\* callbacks.
SpecFair ==
    Spec /\ \A tech \in Techs : WF_vars(BuildFulfilled(tech)) /\ WF_vars(BuildFailed(tech))

\* ---- C29
\* C29 as stated: when a technology has failed in its build routine, every
\* target of it that has been requested through requireSources, before or
\* after the failure, eventually settles, as rejected if nothing had resolved
\* it: no waiter stays pending forever.
C29_Original ==
    \A tech \in Techs : \A t \in Names :
        ( /\ techRun[tech] \in {"failed", "threw"}
          /\ targetNames[t].tech = tech
          /\ targetNames[t].started )
        ~> targetNames[t].st # "pending"


\* ---------------------------------------------------------------- C31
\* C31: node.build and node.clean called without a list both work on the
\* node's default build list, without its repetitions and in first-seen order,
\* whatever the default clean list is; the default clean list only stands for
\* '*' in a list given to node.clean, and a given list without '*' is resolved
\* to itself.
C31 ==
    /\ \A i \in DOMAIN builds :
           ~builds[i].asked.given
           => IsFirstSeen(builds[i].targetsToBuild, targetNamesToBuild)
    /\ \A j \in DOMAIN cleanCalls :
           LET c == cleanCalls[j]
           IN  /\ ~c.asked.given => IsFirstSeen(c.names, targetNamesToBuild)
               /\ (c.asked.given /\ Wildcard \notin SeqSet(c.asked.list))
                  => IsFirstSeen(c.names, c.asked.list)
               /\ (c.asked.given /\ Wildcard \in SeqSet(c.asked.list)
                                 /\ targetNamesToClean # <<>>)
                  => SeqSet(c.names) = (SeqSet(c.asked.list) \ {Wildcard})
                                           \cup SeqSet(targetNamesToClean)

\* A node whose default build list names "a" twice and whose default clean
\* list is another one was built and cleaned without a list: both worked on
\* "a" then "b".
C31_Witness ==
    /\ targetNamesToBuild = <<"a", "b", "a">>
    /\ targetNamesToClean = <<"b">>
    /\ \E i \in DOMAIN builds :
           ~builds[i].asked.given /\ builds[i].targetsToBuild = <<"a", "b">>
    /\ \E j \in DOMAIN cleanCalls :
           ~cleanCalls[j].asked.given /\ cleanCalls[j].names = <<"a", "b">>

====
